---------------------------- MODULE Spec2Model ----------------------------
(***************************************************************************)
(* IndCAD drafting kernel: geometry primitives, hit testing, the object    *)
(* snap resolver, box selection, the fillet construction and the           *)
(* interactive tools with the asynchronous shape-mutation collaborator.    *)
(*                                                                         *)
(* Numbers are exact rationals <<n, d>> (d > 0, lowest terms); a point is  *)
(* a pair of rationals.  A square root is exact when its argument is a     *)
(* perfect square and otherwise rounded down to 1/SqrtScale.               *)
(***************************************************************************)
EXTENDS Integers, Sequences, FiniteSets, TLC

(***************************************************************************)
(* Rational arithmetic                                                     *)
(***************************************************************************)
Abs(n) == IF n < 0 THEN -n ELSE n

(* Bind(v, LAMBDA x : e) is e with x standing for the value v *)
Bind(v, F(_)) == F(v)
Bind2(v, w, F(_, _)) == F(v, w)
Bind3(u, v, w, F(_, _, _)) == F(u, v, w)

RECURSIVE GCD(_, _)
GCD(a, b) == IF b = 0 THEN a ELSE GCD(b, a % b)

Reduce(n, d, g) == <<n \div g, d \div g>>

(* n / d in lowest terms, d > 0 *)
RNorm(n, d) == Reduce(n, d, GCD(d, n % d))

R(k) == <<k, 1>>
RAdd(a, b) == RNorm(a[1] * b[2] + b[1] * a[2], a[2] * b[2])
RSub(a, b) == RNorm(a[1] * b[2] - b[1] * a[2], a[2] * b[2])
RMul(a, b) == RNorm(a[1] * b[1], a[2] * b[2])
RInv(a) == IF a[1] < 0 THEN <<-a[2], -a[1]>> ELSE <<a[2], a[1]>>
RDiv(a, b) == RMul(a, RInv(b))
RNeg(a) == <<-a[1], a[2]>>
RLt(a, b) == a[1] * b[2] < b[1] * a[2]
RLe(a, b) == a[1] * b[2] <= b[1] * a[2]
RAbs(a) == <<Abs(a[1]), a[2]>>
RMin(a, b) == IF RLt(b, a) THEN b ELSE a
RMax(a, b) == IF RLt(a, b) THEN b ELSE a
RSq(a) == RMul(a, a)

P(x, y) == <<R(x), R(y)>>

(* Math.round(x / gs) * gs of a rational x on an integer grid gs *)
RFloor(a) == a[1] \div a[2]
RRound(a) == RFloor(RAdd(a, <<1, 2>>))

(* the largest k in lo..hi with k * k <= n *)
RECURSIVE ISqrtFrom(_, _, _)
ISqrtFrom(n, lo, hi) ==
    IF lo >= hi THEN lo
    ELSE LET mid == (lo + hi + 1) \div 2
         IN  IF mid * mid <= n THEN ISqrtFrom(n, mid, hi) ELSE ISqrtFrom(n, lo, mid - 1)

ISqrt(n) == ISqrtFrom(n, 0, IF n < 46340 THEN n ELSE 46340)

SqrtScale == 16

(* Math.sqrt *)
Root(a, rn, rd) ==
    IF rn * rn = a[1] /\ rd * rd = a[2]
    THEN <<rn, rd>>
    ELSE RNorm(ISqrt(a[1] * a[2] * SqrtScale * SqrtScale), a[2] * SqrtScale)

RSqrt(a) == Root(a, ISqrt(a[1]), ISqrt(a[2]))

(***************************************************************************)
(* geometry.js                                                             *)
(***************************************************************************)
DistSq(p, q) == RAdd(RSq(RSub(q[1], p[1])), RSq(RSub(q[2], p[2])))

(* Geometry.dist *)
Dist(p, q) == RSqrt(DistSq(p, q))

Null == <<>>

(* |denom| < 1e-10 on exact numbers *)
NearZero(a) == a[1] = 0

Sub2(p, q) == <<RSub(p[1], q[1]), RSub(p[2], q[2])>>
Dot(u, v) == RAdd(RMul(u[1], v[1]), RMul(u[2], v[2]))
Cross(u, v) == RSub(RMul(u[1], v[2]), RMul(u[2], v[1]))

Along(a, b, t) ==
    <<RAdd(a[1], RMul(t, RSub(b[1], a[1]))), RAdd(a[2], RMul(t, RSub(b[2], a[2])))>>

(* lineLineIntersection without its test of t and u *)
C15_IgnoresRange(p1, p2, p3, p4) ==
    Bind(Cross(Sub2(p1, p2), Sub2(p3, p4)), LAMBDA denom :
        IF NearZero(denom) THEN Null
        ELSE Along(p1, p2, RDiv(Cross(Sub2(p1, p3), Sub2(p3, p4)), denom)))

(* Geometry.lineLineIntersection: Null or the point *)
lineLineIntersection(p1, p2, p3, p4) ==
    Bind(Cross(Sub2(p1, p2), Sub2(p3, p4)), LAMBDA denom :
        IF NearZero(denom) THEN Null
        ELSE Bind2(RDiv(Cross(Sub2(p1, p3), Sub2(p3, p4)), denom),
                   RNeg(RDiv(Cross(Sub2(p1, p2), Sub2(p1, p3)), denom)),
                   LAMBDA t, u :
                       IF RLe(R(0), t) /\ RLe(t, R(1)) /\ RLe(R(0), u) /\ RLe(u, R(1))
                       THEN Along(p1, p2, t)
                       ELSE Null))

(* the projection parameter ((p - a) . (b - a)) / |b - a|^2 *)
ProjT(p, a, b) == RDiv(Dot(Sub2(p, a), Sub2(b, a)), DistSq(a, b))

(* closestPointOnSegment without its clamp of t *)
C16_Unclamped(p, a, b) ==
    IF NearZero(DistSq(a, b)) THEN a ELSE Along(a, b, ProjT(p, a, b))

(* Geometry.closestPointOnSegment *)
closestPointOnSegment(p, a, b) ==
    IF NearZero(DistSq(a, b)) THEN a
    ELSE Along(a, b, RMax(R(0), RMin(R(1), ProjT(p, a, b))))

(* Geometry.perpendicularPoint *)
perpendicularPoint(p, a, b) ==
    IF NearZero(DistSq(a, b)) THEN a ELSE Along(a, b, ProjT(p, a, b))

(* Geometry.pointInRect *)
pointInRect(pt, x1, y1, x2, y2) ==
    /\ RLe(RMin(x1, x2), pt[1]) /\ RLe(pt[1], RMax(x1, x2))
    /\ RLe(RMin(y1, y2), pt[2]) /\ RLe(pt[2], RMax(y1, y2))

(* Geometry.segmentIntersectsRect *)
RectSides(minX, minY, maxX, maxY) ==
    << <<<<minX, minY>>, <<maxX, minY>>>>,
       <<<<maxX, minY>>, <<maxX, maxY>>>>,
       <<<<maxX, maxY>>, <<minX, maxY>>>>,
       <<<<minX, maxY>>, <<minX, minY>>>> >>

CrossesAny(p1, p2, sides) ==
    \E i \in DOMAIN sides : lineLineIntersection(p1, p2, sides[i][1], sides[i][2]) # Null

segmentIntersectsRect(p1, p2, x1, y1, x2, y2) ==
    \/ pointInRect(p1, x1, y1, x2, y2)
    \/ pointInRect(p2, x1, y1, x2, y2)
    \/ CrossesAny(p1, p2, RectSides(RMin(x1, x2), RMin(y1, y2), RMax(x1, x2), RMax(y1, y2)))

(***************************************************************************)
(* Shapes: [id, type, hidden, a, b, r, pts, closed]                        *)
(*   line: a = (x1,y1), b = (x2,y2); rectangle: a = (x,y), b = (width,     *)
(*   height); circle: a = (cx,cy), r = radius; polyline: pts, closed.      *)
(***************************************************************************)
Line(id, x1, y1, x2, y2) ==
    [id |-> id, type |-> "line", hidden |-> FALSE, a |-> P(x1, y1), b |-> P(x2, y2),
     r |-> R(0), pts |-> <<>>, closed |-> FALSE]
Rectangle(id, x, y, w, h) ==
    [id |-> id, type |-> "rectangle", hidden |-> FALSE, a |-> P(x, y), b |-> P(w, h),
     r |-> R(0), pts |-> <<>>, closed |-> FALSE]
Circle(id, cx, cy, rad) ==
    [id |-> id, type |-> "circle", hidden |-> FALSE, a |-> P(cx, cy), b |-> P(0, 0),
     r |-> R(rad), pts |-> <<>>, closed |-> FALSE]
Polyline(id, pts, closed) ==
    [id |-> id, type |-> "polyline", hidden |-> FALSE, a |-> P(0, 0), b |-> P(0, 0),
     r |-> R(0), pts |-> pts, closed |-> closed]
Hidden(s) == [s EXCEPT !.hidden = TRUE]

(* Geometry.getSegments: a sequence of <<p, q>> *)
getSegments(s) ==
    IF s.type = "line" THEN << <<s.a, s.b>> >>
    ELSE IF s.type = "polyline" THEN
        [i \in 1..(IF Len(s.pts) = 0 THEN 0 ELSE Len(s.pts) - 1) |-> <<s.pts[i], s.pts[i + 1]>>]
        \o (IF s.closed /\ Len(s.pts) > 0 THEN << <<s.pts[Len(s.pts)], s.pts[1]>> >> ELSE <<>>)
    ELSE IF s.type = "rectangle" THEN
        Bind(<<s.a, <<RAdd(s.a[1], s.b[1]), s.a[2]>>,
               <<RAdd(s.a[1], s.b[1]), RAdd(s.a[2], s.b[2])>>,
               <<s.a[1], RAdd(s.a[2], s.b[2])>> >>,
             LAMBDA c : [i \in 1..4 |-> <<c[i], c[(i % 4) + 1]>>])
    ELSE <<>>

(* the point p1 + t * d of lineCircleIntersection when 0 <= t <= 1 *)
RootPoint(p1, d, t) ==
    IF RLe(R(0), t) /\ RLe(t, R(1))
    THEN << <<RAdd(p1[1], RMul(t, d[1])), RAdd(p1[2], RMul(t, d[2]))>> >>
    ELSE <<>>

(* Geometry.lineCircleIntersection: a sequence of points *)
lineCircleIntersection(p1, p2, center, radius) ==
    Bind2(Sub2(p1, center), Sub2(p2, p1), LAMBDA f, d :
        Bind3(Dot(d, d), RMul(R(2), Dot(f, d)), RSub(Dot(f, f), RSq(radius)), LAMBDA a, b, c :
            Bind(RSub(RSq(b), RMul(R(4), RMul(a, c))), LAMBDA disc :
                IF RLt(disc, R(0)) \/ NearZero(a) THEN <<>>
                ELSE Bind(RSqrt(disc), LAMBDA sqrtDisc :
                         RootPoint(p1, d, RDiv(RAdd(RNeg(b), sqrtDisc), RMul(R(2), a)))
                         \o RootPoint(p1, d, RDiv(RSub(RNeg(b), sqrtDisc), RMul(R(2), a)))))))

(* center - radius * (cos, sin)(angle + offset) of calculateTangentPoints,  *)
(* where d = center - point, dd = |d|^2, cos(offset) = radius / |d| and      *)
(* sin(offset) = h / |d| with h = +-sqrt(dd - radius^2)                     *)
TangentAt(center, radius, d, dd, h) ==
    <<RSub(center[1], RDiv(RMul(radius, RSub(RMul(d[1], radius), RMul(d[2], h))), dd)),
      RSub(center[2], RDiv(RMul(radius, RAdd(RMul(d[2], radius), RMul(d[1], h))), dd))>>

(* calculateTangentPoints answering the anchor wherever it is not inside *)
C17_AnchorOnly(point, center, radius) ==
    IF RLt(DistSq(point, center), RSq(radius)) THEN <<>> ELSE <<point>>

(* Geometry.calculateTangentPoints: a sequence of points *)
calculateTangentPoints(point, center, radius) ==
    Bind(Sub2(center, point), LAMBDA d :
        Bind2(Dot(d, d), RSq(radius), LAMBDA dd, rr :
            IF RLt(dd, rr) THEN <<>>
            ELSE IF dd = rr THEN <<point>>
            ELSE Bind(RSqrt(RSub(dd, rr)), LAMBDA h :
                     <<TangentAt(center, radius, d, dd, h),
                       TangentAt(center, radius, d, dd, RNeg(h))>>)))

(***************************************************************************)
(* Angles in degrees.  Math.atan2, Math.sin and Math.cos are exact on the  *)
(* multiples of 45 and 90 degrees that axis-aligned geometry produces and  *)
(* rounded down to 1/SqrtScale elsewhere.                                  *)
(***************************************************************************)
RQuant(a) == RNorm(RFloor(RMul(a, R(SqrtScale))), SqrtScale)

RMod(a, m) == RSub(a, R(m * RFloor(RDiv(a, R(m)))))

(* Math.atan of a slope z in [0, 1], in degrees *)
AtanDeg01(z) ==
    IF z = <<0, 1>> THEN R(0)
    ELSE IF z = R(1) THEN R(45)
    ELSE RQuant(RAdd(RMul(R(45), z), RMul(RMul(<<391, 25>>, z), RSub(R(1), z))))

(* Math.atan2(dy, dx) * 180 / Math.PI, in (-180, 180] *)
Atan2Deg(dy, dx) ==
    Bind(IF dx = R(0) /\ dy = R(0) THEN R(0)
         ELSE IF RLe(RAbs(dy), RAbs(dx)) THEN AtanDeg01(RDiv(RAbs(dy), RAbs(dx)))
         ELSE RSub(R(90), AtanDeg01(RDiv(RAbs(dx), RAbs(dy)))),
         LAMBDA th :
             IF ~RLt(dx, R(0)) /\ ~RLt(dy, R(0)) THEN th
             ELSE IF RLt(dx, R(0)) /\ ~RLt(dy, R(0)) THEN RSub(R(180), th)
             ELSE IF RLt(dx, R(0)) THEN RSub(th, R(180))
             ELSE RNeg(th))

(* Math.sin on [0, 180) degrees *)
SinHalf(half) ==
    IF half = R(0) THEN R(0)
    ELSE IF half = R(90) THEN R(1)
    ELSE Bind(RMul(half, RSub(R(180), half)), LAMBDA q :
             RQuant(RDiv(RMul(R(4), q), RSub(R(40500), q))))

(* Math.sin(d * Math.PI / 180) *)
SinDeg(d) ==
    Bind(RMod(d, 360), LAMBDA x :
        IF RLt(x, R(180)) THEN SinHalf(x) ELSE RNeg(SinHalf(RSub(x, R(180)))))

CosDeg(d) == SinDeg(RAdd(d, R(90)))

(* start <= angle <= end on the circle, all three in [0, 360) *)
InSweep(a, st, en) ==
    IF RLe(st, en) THEN RLe(st, a) /\ RLe(a, en) ELSE RLe(st, a) \/ RLe(a, en)

(* Geometry.isAngleBetween *)
isAngleBetween(angle, start, end) ==
    InSweep(RMod(angle, 360), RMod(start, 360), RMod(end, 360))

(***************************************************************************)
(* CanvasEngine: coordinate transform, hit testing, bounding boxes and     *)
(* box selection                                                           *)
(***************************************************************************)
(* CanvasEngine.screenToWorld; zoom and pan are finite here *)
screenToWorld(e, sp) ==
    Bind(IF RLt(R(0), e.zoom) THEN e.zoom ELSE R(1), LAMBDA zoom :
        <<RDiv(RSub(sp[1], e.pan[1]), zoom), RDiv(RSub(sp[2], e.pan[2]), zoom)>>)

(* CanvasEngine.worldToScreen *)
worldToScreen(e, wp) ==
    <<RAdd(RMul(wp[1], e.zoom), e.pan[1]), RAdd(RMul(wp[2], e.zoom), e.pan[2])>>

(* the square of CanvasEngine._pointToLineDist *)
PointToLineDistSq(p, a, b) == DistSq(p, closestPointOnSegment(p, a, b))

(* |sqrt(dd) - r| < tol *)
RingWithin(dd, r, tol) ==
    /\ RLt(dd, RSq(RAdd(r, tol)))
    /\ (RLt(r, tol) \/ RLt(RSq(RSub(r, tol)), dd))

(* CanvasEngine._hitTestShape *)
NearSegment(pos, a, b, tol) == RLt(PointToLineDistSq(pos, a, b), RSq(tol))

NearAny(pos, segs, tol) == \E i \in DOMAIN segs : NearSegment(pos, segs[i][1], segs[i][2], tol)

(* Math.atan2(...) * 180 / Math.PI, plus 360 when negative *)
ArcAngle(c, p) ==
    Bind(Atan2Deg(RSub(p[2], c[2]), RSub(p[1], c[1])), LAMBDA a :
        IF RLt(a, R(0)) THEN RAdd(a, R(360)) ELSE a)

(* CanvasEngine._hitTestShape *)
HitTestShape(shape, pos, tol) ==
    IF shape.type \in {"line", "rectangle"} THEN NearAny(pos, getSegments(shape), tol)
    ELSE IF shape.type = "circle" THEN RingWithin(DistSq(pos, shape.a), shape.r, tol)
    ELSE IF shape.type = "polyline" THEN
        \E i \in 1..Len(shape.pts) :
            /\ (i < Len(shape.pts) \/ (shape.closed /\ i > 2))
            /\ NearSegment(pos, shape.pts[i], shape.pts[(i % Len(shape.pts)) + 1], tol)
    ELSE IF shape.type = "arc" THEN
        /\ Bind(DistSq(pos, shape.a), LAMBDA dd :
               /\ RLe(dd, RSq(RAdd(shape.r, tol)))
               /\ (RLe(shape.r, tol) \/ RLe(RSq(RSub(shape.r, tol)), dd)))
        /\ InSweep(ArcAngle(shape.a, pos), RMod(shape.b[1], 360), RMod(shape.b[2], 360))
    ELSE IF shape.type = "ellipse" THEN
        /\ shape.b[1] # R(0) /\ shape.b[2] # R(0)
        /\ RingWithin(RAdd(RSq(RDiv(RSub(pos[1], shape.a[1]), shape.b[1])),
                           RSq(RDiv(RSub(pos[2], shape.a[2]), shape.b[2]))),
                      R(1), RDiv(tol, RMin(shape.b[1], shape.b[2])))
    ELSE IF shape.type = "dimension" THEN NearSegment(pos, shape.a, shape.b, RMul(tol, R(2)))
    ELSE FALSE

(* a hit test in which the shape drawn first wins *)
C14_FirstDrawnWins(e, worldPos) ==
    Bind({i \in DOMAIN e.shapes : HitTestShape(e.shapes[i], worldPos, RDiv(R(5), e.zoom))},
         LAMBDA hits :
             IF hits = {} THEN {}
             ELSE {e.shapes[CHOOSE i \in hits : \A j \in hits : i <= j].id})

HitTolerance == 5

(* CanvasEngine.hitTest: the set holding the id of the shape hit, or {} *)
hitTest(e, worldPos) ==
    Bind({i \in DOMAIN e.shapes :
             HitTestShape(e.shapes[i], worldPos, RDiv(R(HitTolerance), e.zoom))},
         LAMBDA hits :
             IF hits = {} THEN {}
             ELSE {e.shapes[CHOOSE i \in hits : \A j \in hits : j <= i].id})

ShapeById(e, id) == e.shapes[CHOOSE i \in DOMAIN e.shapes : e.shapes[i].id = id]

NoBox == [ok |-> FALSE, x |-> R(0), y |-> R(0), w |-> R(0), h |-> R(0)]

RECURSIVE PtsExtreme(_, _, _, _)
PtsExtreme(pts, k, i, useMax) ==
    IF i > Len(pts) THEN pts[1][k]
    ELSE LET rest == PtsExtreme(pts, k, i + 1, useMax)
         IN  IF useMax THEN RMax(pts[i][k], rest) ELSE RMin(pts[i][k], rest)

(* CanvasEngine._getBoundingBox on finite geometry *)
getBoundingBox(shape) ==
    IF shape.type = "line" THEN
        [ok |-> TRUE, x |-> RMin(shape.a[1], shape.b[1]), y |-> RMin(shape.a[2], shape.b[2]),
         w |-> RAbs(RSub(shape.b[1], shape.a[1])), h |-> RAbs(RSub(shape.b[2], shape.a[2]))]
    ELSE IF shape.type = "rectangle" THEN
        [ok |-> TRUE, x |-> shape.a[1], y |-> shape.a[2], w |-> shape.b[1], h |-> shape.b[2]]
    ELSE IF shape.type \in {"circle", "arc"} THEN
        [ok |-> TRUE, x |-> RSub(shape.a[1], shape.r), y |-> RSub(shape.a[2], shape.r),
         w |-> RMul(shape.r, R(2)), h |-> RMul(shape.r, R(2))]
    ELSE IF shape.type = "ellipse" THEN
        [ok |-> TRUE, x |-> RSub(shape.a[1], shape.b[1]), y |-> RSub(shape.a[2], shape.b[2]),
         w |-> RMul(shape.b[1], R(2)), h |-> RMul(shape.b[2], R(2))]
    ELSE IF shape.type = "polyline" /\ Len(shape.pts) > 0 THEN
        LET mnx == PtsExtreme(shape.pts, 1, 1, FALSE)  mxx == PtsExtreme(shape.pts, 1, 1, TRUE)
            mny == PtsExtreme(shape.pts, 2, 1, FALSE)  mxy == PtsExtreme(shape.pts, 2, 1, TRUE)
        IN  [ok |-> TRUE, x |-> mnx, y |-> mny, w |-> RSub(mxx, mnx), h |-> RSub(mxy, mny)]
    ELSE NoBox

(* step 1 of _isShapeInBox: the bounding box lies entirely inside *)
BBoxInside(bb, x1, y1, x2, y2) ==
    /\ RLe(RMin(x1, x2), bb.x) /\ RLe(RMin(y1, y2), bb.y)
    /\ RLe(RAdd(bb.x, bb.w), RMax(x1, x2)) /\ RLe(RAdd(bb.y, bb.h), RMax(y1, y2))

MeetsAny(segs, x1, y1, x2, y2) ==
    \E i \in DOMAIN segs : segmentIntersectsRect(segs[i][1], segs[i][2], x1, y1, x2, y2)

(* Math.max(lo, Math.min(v, hi)) *)
Clamp(lo, v, hi) == RMax(lo, RMin(v, hi))

(* CanvasEngine._isShapeInBox *)
isShapeInBox(shape, x1, y1, x2, y2, crossing) ==
    Bind(getBoundingBox(shape), LAMBDA bb :
        IF ~bb.ok THEN FALSE
        ELSE IF BBoxInside(bb, x1, y1, x2, y2) THEN TRUE
        ELSE IF ~crossing THEN FALSE
        ELSE IF shape.type \in {"line", "polyline", "rectangle"} THEN
            MeetsAny(getSegments(shape), x1, y1, x2, y2)
        ELSE IF shape.type \in {"circle", "arc"} THEN
            RLe(DistSq(shape.a, <<Clamp(RMin(x1, x2), shape.a[1], RMax(x1, x2)),
                                  Clamp(RMin(y1, y2), shape.a[2], RMax(y1, y2))>>),
                RSq(shape.r))
        ELSE FALSE)

(* CanvasEngine.getShapesInBox: the ids of the shapes returned *)
getShapesInBox(e, x1, y1, x2, y2, crossing) ==
    {e.shapes[i].id : i \in {j \in DOMAIN e.shapes :
        ~e.shapes[j].hidden /\ isShapeInBox(e.shapes[j], x1, y1, x2, y2, crossing)}}

(***************************************************************************)
(* CanvasEngine: object snapping                                           *)
(***************************************************************************)
SnapKinds == {"endpoint", "midpoint", "center", "quadrant", "intersection",
              "perpendicular", "tangent", "extension", "nearest", "grid"}

NoSnap == [type |-> "none", point |-> Null]
Snap(type, point) == [type |-> type, point |-> point]

isEnabled(settings, type) == settings[type] # FALSE

RECURSIVE Concat(_)
Concat(ss) == IF ss = <<>> THEN <<>> ELSE Head(ss) \o Concat(Tail(ss))

Mid(p, q) == <<RDiv(RAdd(p[1], q[1]), R(2)), RDiv(RAdd(p[2], q[2]), R(2))>>

MapSeq(seq, F(_)) == [i \in DOMAIN seq |-> F(seq[i])]
FlatMap(seq, F(_)) == Concat([i \in DOMAIN seq |-> F(seq[i])])

(* a shape whose first point is reported as a grid snap *)
C7_ReportsGrid(shape, settings) == <<Snap("grid", shape.a)>>

(* the point of the circle of shape at angle deg *)
ArcPoint(shape, deg) ==
    <<RAdd(shape.a[1], RMul(CosDeg(deg), shape.r)), RAdd(shape.a[2], RMul(SinDeg(deg), shape.r))>>

RectSnaps(settings, x, y, xw, yh, xm, ym) ==
    (IF isEnabled(settings, "endpoint")
       THEN <<Snap("endpoint", <<x, y>>), Snap("endpoint", <<xw, y>>),
              Snap("endpoint", <<xw, yh>>), Snap("endpoint", <<x, yh>>)>> ELSE <<>>)
    \o (IF isEnabled(settings, "midpoint")
          THEN <<Snap("midpoint", <<xm, y>>), Snap("midpoint", <<xw, ym>>),
                 Snap("midpoint", <<xm, yh>>), Snap("midpoint", <<x, ym>>)>> ELSE <<>>)
    \o (IF isEnabled(settings, "center") THEN <<Snap("center", <<xm, ym>>)>> ELSE <<>>)

(* CanvasEngine._getSnapPointsForShape *)
getSnapPointsForShape(shape, settings) ==
    IF shape.type = "line" THEN
        (IF isEnabled(settings, "endpoint")
           THEN <<Snap("endpoint", shape.a), Snap("endpoint", shape.b)>> ELSE <<>>)
        \o (IF isEnabled(settings, "midpoint")
              THEN <<Snap("midpoint", Mid(shape.a, shape.b))>> ELSE <<>>)
    ELSE IF shape.type = "polyline" THEN
        Concat([i \in 1..Len(shape.pts) |->
            (IF isEnabled(settings, "endpoint") THEN <<Snap("endpoint", shape.pts[i])>> ELSE <<>>)
            \o (IF /\ isEnabled(settings, "midpoint")
                   /\ (i < Len(shape.pts) \/ (shape.closed /\ Len(shape.pts) > 2))
                  THEN <<Snap("midpoint",
                              Mid(shape.pts[i], shape.pts[(i % Len(shape.pts)) + 1]))>>
                  ELSE <<>>)])
    ELSE IF shape.type = "rectangle" THEN
        RectSnaps(settings, shape.a[1], shape.a[2],
                  RAdd(shape.a[1], shape.b[1]), RAdd(shape.a[2], shape.b[2]),
                  RAdd(shape.a[1], RDiv(shape.b[1], R(2))), RAdd(shape.a[2], RDiv(shape.b[2], R(2))))
    ELSE IF shape.type = "circle" THEN
        (IF isEnabled(settings, "center") THEN <<Snap("center", shape.a)>> ELSE <<>>)
        \o (IF isEnabled(settings, "quadrant")
              THEN <<Snap("quadrant", <<RAdd(shape.a[1], shape.r), shape.a[2]>>),
                     Snap("quadrant", <<RSub(shape.a[1], shape.r), shape.a[2]>>),
                     Snap("quadrant", <<shape.a[1], RAdd(shape.a[2], shape.r)>>),
                     Snap("quadrant", <<shape.a[1], RSub(shape.a[2], shape.r)>>)>>
              ELSE <<>>)
    ELSE IF shape.type = "arc" THEN
        (IF isEnabled(settings, "center") THEN <<Snap("center", shape.a)>> ELSE <<>>)
        \o (IF isEnabled(settings, "endpoint")
              THEN [k \in 1..2 |-> Snap("endpoint", ArcPoint(shape, shape.b[k]))]
              ELSE <<>>)
        \o (IF isEnabled(settings, "quadrant")
              THEN Concat([k \in 1..4 |->
                       IF isAngleBetween(R(90 * (k - 1)), shape.b[1], shape.b[2])
                       THEN <<Snap("quadrant", ArcPoint(shape, R(90 * (k - 1))))>>
                       ELSE <<>>])
              ELSE <<>>)
    ELSE IF shape.type = "ellipse" THEN
        (* an ellipse has no startAngle, so isAngleBetween is false for every quadrant *)
        (IF isEnabled(settings, "center") THEN <<Snap("center", shape.a)>> ELSE <<>>)
    ELSE <<>>

PolyTypes == {"line", "polyline", "rectangle"}

(* a point of the circle of shape c lies on c: always for a circle, within *)
(* the angular range for an arc                                            *)
InArcRange(c, pt) ==
    c.type # "arc"
    \/ isAngleBetween(Atan2Deg(RSub(pt[2], c.a[2]), RSub(pt[1], c.a[1])), c.b[1], c.b[2])

Found(res) == IF res # Null THEN <<res>> ELSE <<>>

(* line segments against line segments *)
SegmentHits(a, b) ==
    FlatMap(getSegments(a), LAMBDA sa : FlatMap(getSegments(b), LAMBDA sb :
        Found(lineLineIntersection(sa[1], sa[2], sb[1], sb[2]))))

(* line segments against a circle or an arc *)
CircleHits(a, c) ==
    FlatMap(getSegments(a), LAMBDA sa :
        SelectSeq(lineCircleIntersection(sa[1], sa[2], c.a, c.r), LAMBDA pt : InArcRange(c, pt)))

(* CanvasEngine._getIntersections: a sequence of points *)
getIntersections(s1, s2) ==
    IF s1.type \in PolyTypes /\ s2.type \in PolyTypes THEN SegmentHits(s1, s2)
    ELSE IF s1.type \in PolyTypes /\ s2.type \in {"circle", "arc"} THEN CircleHits(s1, s2)
    ELSE IF s2.type \in PolyTypes /\ s1.type \in {"circle", "arc"} THEN CircleHits(s2, s1)
    ELSE <<>>

(* the point of the circle of shape on the ray from its centre through p, d = |p - centre| *)
Radial(shape, p, d) ==
    IF d = R(0) THEN <<>>
    ELSE SelectSeq(
           <<Snap("nearest", <<RAdd(shape.a[1], RDiv(RMul(shape.r, RSub(p[1], shape.a[1])), d)),
                               RAdd(shape.a[2], RDiv(RMul(shape.r, RSub(p[2], shape.a[2])), d))>>)>>,
           LAMBDA c : InArcRange(shape, c.point))

(* CanvasEngine._checkNearestOnShape: the points handed to checkPoint *)
checkNearestOnShape(shape, p) ==
    IF shape.type \in PolyTypes THEN
        MapSeq(getSegments(shape), LAMBDA sg : Snap("nearest", closestPointOnSegment(p, sg[1], sg[2])))
    ELSE IF shape.type \in {"circle", "arc"} THEN
        Bind(DistSq(shape.a, p), LAMBDA dd :
            IF NearZero(dd) THEN <<>> ELSE Radial(shape, p, RSqrt(dd)))
    ELSE <<>>

(* a checkPoint that keeps the candidate seen last *)
C6_KeepsLast(acc, worldPos, cand) == [best |-> cand, minSq |-> acc.minSq]

(* a checkPoint that also takes a candidate at the same distance *)
C24_TakesTies(acc, worldPos, cand) ==
    Bind(DistSq(worldPos, cand.point), LAMBDA dd :
        IF RLe(dd, acc.minSq) THEN [best |-> cand, minSq |-> dd] ELSE acc)

(* checkPoint of findSnapPoint: acc = [best, minSq], minSq the square of minDist *)
checkPoint(acc, worldPos, cand) ==
    Bind(DistSq(worldPos, cand.point), LAMBDA dd :
        IF RLt(dd, acc.minSq) THEN [best |-> cand, minSq |-> dd] ELSE acc)

RECURSIVE CheckAll(_, _, _)
CheckAll(acc, worldPos, cands) ==
    IF cands = <<>> THEN acc
    ELSE CheckAll(checkPoint(acc, worldPos, Head(cands)), worldPos, Tail(cands))

Visible(shapes) == SelectSeq(shapes, LAMBDA s : ~s.hidden)

(* tier 1: static shape snaps *)
StaticCands(shapes, settings) ==
    FlatMap(Visible(shapes), LAMBDA s : getSnapPointsForShape(s, settings))

(* tier 2: intersections of every pair i < j of visible shapes *)
IntersectionCands(shapes) ==
    Bind(Visible(shapes), LAMBDA v :
        Concat([i \in DOMAIN v |-> Concat([j \in DOMAIN v |->
            IF j > i THEN MapSeq(getIntersections(v[i], v[j]), LAMBDA pt : Snap("intersection", pt))
            ELSE <<>>])]))

(* tier 3: perpendicular and tangent from the base point *)
PerpendicularCands(shapes, bp) ==
    FlatMap(Visible(shapes), LAMBDA s :
        MapSeq(getSegments(s),
               LAMBDA sg : Snap("perpendicular", perpendicularPoint(bp, sg[1], sg[2]))))

TangentCands(shapes, bp) ==
    FlatMap(Visible(shapes), LAMBDA s :
        IF s.type \in {"circle", "arc"}
        THEN SelectSeq(MapSeq(calculateTangentPoints(bp, s.a, s.r),
                              LAMBDA pt : Snap("tangent", pt)),
                       LAMBDA c : InArcRange(s, c.point))
        ELSE <<>>)

ExtensionReach == 300

(* the extension snap of a line s whose infinite line passes perp *)
Extended(s, worldPos, tol, zoom, perp) ==
    Bind3(DistSq(perp, s.a), DistSq(perp, s.b), DistSq(s.a, s.b), LAMBDA d1, d2, d12 :
        IF /\ RLt(DistSq(perp, worldPos), RSq(tol))
           /\ (RLt(d12, d1) \/ RLt(d12, d2))
           /\ (RLt(d1, RSq(RDiv(R(ExtensionReach), zoom)))
               \/ RLt(d2, RSq(RDiv(R(ExtensionReach), zoom))))
        THEN <<Snap("extension", perp)>> ELSE <<>>)

ExtensionCands(shapes, worldPos, tol, zoom) ==
    FlatMap(Visible(shapes), LAMBDA s :
        IF s.type = "line"
        THEN Extended(s, worldPos, tol, zoom, perpendicularPoint(worldPos, s.a, s.b))
        ELSE <<>>)

NearestCands(shapes, worldPos) ==
    FlatMap(Visible(shapes), LAMBDA s : checkNearestOnShape(s, worldPos))

IntersectionGate == 5
NearestGate == 8

(* a gate that is still open at minDist = g / zoom *)
C25_OpenAtGate(acc, g, zoom) == acc.best = NoSnap \/ RLe(RSq(RDiv(R(g), zoom)), acc.minSq)

(* minDist > g / zoom *)
Beyond(acc, g, zoom) == acc.best = NoSnap \/ RLt(RSq(RDiv(R(g), zoom)), acc.minSq)

(* the tiers of findSnapPoint after the static one *)
TierIntersection(e, worldPos, settings, a) ==
    IF isEnabled(settings, "intersection") /\ Beyond(a, IntersectionGate, e.zoom)
    THEN CheckAll(a, worldPos, IntersectionCands(e.shapes)) ELSE a

TierPerpendicular(e, worldPos, settings, a) ==
    IF e.snapBasePoint # Null /\ isEnabled(settings, "perpendicular")
    THEN CheckAll(a, worldPos, PerpendicularCands(e.shapes, e.snapBasePoint)) ELSE a

TierTangent(e, worldPos, settings, a) ==
    IF e.snapBasePoint # Null /\ isEnabled(settings, "tangent")
    THEN CheckAll(a, worldPos, TangentCands(e.shapes, e.snapBasePoint)) ELSE a

TierExtension(e, worldPos, tol, settings, a) ==
    IF isEnabled(settings, "extension")
    THEN CheckAll(a, worldPos, ExtensionCands(e.shapes, worldPos, tol, e.zoom)) ELSE a

(* a nearest tier that does not ask the settings *)
C23_NearestUnasked(e, worldPos, settings, a) ==
    IF Beyond(a, NearestGate, e.zoom)
    THEN CheckAll(a, worldPos, NearestCands(e.shapes, worldPos)) ELSE a

TierNearest(e, worldPos, settings, a) ==
    IF isEnabled(settings, "nearest") /\ Beyond(a, NearestGate, e.zoom)
    THEN CheckAll(a, worldPos, NearestCands(e.shapes, worldPos)) ELSE a

(* CanvasEngine.findSnapPoint *)
findSnapPoint(e, worldPos, tolerance, settings) ==
    TierNearest(e, worldPos, settings,
      TierExtension(e, worldPos, RDiv(R(tolerance), e.zoom), settings,
        TierTangent(e, worldPos, settings,
          TierPerpendicular(e, worldPos, settings,
            TierIntersection(e, worldPos, settings,
              CheckAll([best |-> NoSnap, minSq |-> RSq(RDiv(R(tolerance), e.zoom))],
                       worldPos, StaticCands(e.shapes, settings))))))).best

(* rotPt of ArrayTool._rotateShapeAroundCenter *)
rotPt(p, center, deg) ==
    Bind3(Sub2(p, center), CosDeg(deg), SinDeg(deg), LAMBDA d, c, sn :
        <<RAdd(center[1], RSub(RMul(d[1], c), RMul(d[2], sn))),
          RAdd(center[2], RAdd(RMul(d[1], sn), RMul(d[2], c)))>>)

(* ArrayTool._rotateShapeAroundCenter: a deep clone, id included *)
rotateShapeAroundCenter(s, center, deg) ==
    IF s.type = "line" THEN [s EXCEPT !.a = rotPt(s.a, center, deg), !.b = rotPt(s.b, center, deg)]
    ELSE IF s.type = "rectangle" THEN
        Bind(<<RDiv(s.b[1], R(2)), RDiv(s.b[2], R(2))>>, LAMBDA half :
            Bind(rotPt(<<RAdd(s.a[1], half[1]), RAdd(s.a[2], half[2])>>, center, deg), LAMBDA rc :
                [s EXCEPT !.a = Sub2(rc, half)]))
    ELSE IF s.type = "circle" THEN [s EXCEPT !.a = rotPt(s.a, center, deg)]
    ELSE IF s.type = "polyline" THEN [s EXCEPT !.pts = [i \in DOMAIN s.pts |-> rotPt(s.pts[i], center, deg)]]
    ELSE s

(***************************************************************************)
(* Shape transforms of the engine and of the collaborator                  *)
(***************************************************************************)
Shift(p, dx, dy) == <<RAdd(p[1], dx), RAdd(p[2], dy)>>

(* CanvasEngine._getTranslatedShape *)
getTranslatedShape(s, dx, dy) ==
    IF s.type \in {"line", "dimension"}
      THEN [s EXCEPT !.a = Shift(s.a, dx, dy), !.b = Shift(s.b, dx, dy)]
    ELSE IF s.type = "polyline" THEN [s EXCEPT !.pts = [i \in DOMAIN s.pts |-> Shift(s.pts[i], dx, dy)]]
    ELSE [s EXCEPT !.a = Shift(s.a, dx, dy)]

About(p, base, f) ==
    <<RAdd(base[1], RMul(RSub(p[1], base[1]), f)), RAdd(base[2], RMul(RSub(p[2], base[2]), f))>>

(* CanvasEngine._getScaledShape *)
getScaledShape(s, base, f) ==
    IF s.type \in {"line", "dimension"}
      THEN [s EXCEPT !.a = About(s.a, base, f), !.b = About(s.b, base, f)]
    ELSE IF s.type = "polyline" THEN [s EXCEPT !.pts = [i \in DOMAIN s.pts |-> About(s.pts[i], base, f)]]
    ELSE IF s.type = "rectangle"
      THEN [s EXCEPT !.a = About(s.a, base, f), !.b = <<RMul(s.b[1], f), RMul(s.b[2], f)>>]
    ELSE IF s.type = "ellipse"
      THEN [s EXCEPT !.a = About(s.a, base, f), !.b = <<RMul(s.b[1], f), RMul(s.b[2], f)>>]
    ELSE [s EXCEPT !.a = About(s.a, base, f), !.r = RMul(s.r, f)]

(* CanvasEngine._getRotatedShape: a rectangle becomes its closed outline *)
getRotatedShape(s, base, deg) ==
    IF s.type = "rectangle"
    THEN rotateShapeAroundCenter(
             [s EXCEPT !.type = "polyline", !.closed = TRUE,
                       !.pts = <<s.a, Shift(s.a, s.b[1], R(0)), Shift(s.a, s.b[1], s.b[2]),
                                 Shift(s.a, R(0), s.b[2])>>], base, deg)
    ELSE rotateShapeAroundCenter(s, base, deg)

(***************************************************************************)
(* FilletTool geometry                                                     *)
(***************************************************************************)
(* FilletTool._lineLineInf *)
lineLineInf(p1, p2, p3, p4) ==
    Bind(RSub(RMul(RSub(p1[1], p2[1]), RSub(p3[2], p4[2])),
              RMul(RSub(p1[2], p2[2]), RSub(p3[1], p4[1]))), LAMBDA denom :
        IF NearZero(denom) THEN Null
        ELSE Along(p1, p2, RDiv(RSub(RMul(RSub(p1[1], p3[1]), RSub(p3[2], p4[2])),
                                     RMul(RSub(p1[2], p3[2]), RSub(p3[1], p4[1]))), denom)))

(* a projection that returns the first point of the line *)
C10_ProjectsOnEnd(pt, a, b) == a

(* FilletTool._projectOnLine *)
projectOnLine(pt, a, b) == IF NearZero(DistSq(a, b)) THEN a ELSE Along(a, b, ProjT(pt, a, b))

Marker(c, px, zoom, color) ==
    [type |-> "circle", c |-> c, r |-> RDiv(R(px), zoom), color |-> color]

(* the end of line s farther from the corner ix *)
FarEnd(s, ix) == IF RLe(DistSq(s.b, ix), DistSq(s.a, ix)) THEN s.a ELSE s.b

UnitFrom(far, ix, len) == <<RDiv(RSub(far[1], ix[1]), len), RDiv(RSub(far[2], ix[2]), len)>>

LeftOf(v) == <<RNeg(v[2]), v[1]>>

(* the normal of v on the side of w *)
Inward(v, w) == IF RLt(R(0), Dot(LeftOf(v), w)) THEN LeftOf(v) ELSE <<v[2], RNeg(v[1])>>

OffsetBy(pt, n, radius) == Shift(pt, RMul(n[1], radius), RMul(n[2], radius))

OnFillet(center, radius, deg) ==
    Shift(center, RMul(radius, CosDeg(deg)), RMul(radius, SinDeg(deg)))

FullSweep(sw) == IF sw = R(0) THEN R(360) ELSE sw

(* a fillet whose angles are never exchanged *)
C21_NeverSwaps(ix, center, radius, saN, sweepCW) == FALSE

(* the midpoint of the clockwise sweep is farther from the corner *)
SwapAngles(ix, center, radius, saN, sweepCW) ==
    RLt(DistSq(OnFillet(center, radius, RSub(saN, RDiv(RSub(R(360), sweepCW), R(2)))), ix),
        DistSq(OnFillet(center, radius, RAdd(saN, RDiv(sweepCW, R(2)))), ix))

FilletDrawn(zoom, radius, center, t1, t2, sa, ea, swap) ==
    [list |-> <<[type |-> "arc", c |-> center, r |-> radius, color |-> "#00ff88",
                 startAngle |-> IF swap THEN ea ELSE sa,
                 endAngle |-> IF swap THEN sa ELSE ea],
                Marker(center, 3, zoom, "#ffcc00"),
                Marker(t1, 3, zoom, "#ff6600"),
                Marker(t2, 3, zoom, "#ff6600")>>]

FilletAngles(zoom, radius, ix, center, t1, t2, sa, ea) ==
    FilletDrawn(zoom, radius, center, t1, t2, sa, ea,
                SwapAngles(ix, center, radius, RMod(sa, 360),
                           FullSweep(RMod(RSub(RMod(ea, 360), RMod(sa, 360)), 360))))

FilletTangents(zoom, radius, ix, center, t1, t2) ==
    FilletAngles(zoom, radius, ix, center, t1, t2,
                 Atan2Deg(RSub(t1[2], center[2]), RSub(t1[1], center[1])),
                 Atan2Deg(RSub(t2[2], center[2]), RSub(t2[1], center[1])))

FilletCenter(e, radius, s1, s2, ix, center) ==
    IF center = Null THEN e.preview
    ELSE FilletTangents(e.zoom, radius, ix, center, projectOnLine(center, s1.a, s1.b),
                        projectOnLine(center, s2.a, s2.b))

FilletNormals(e, radius, s1, s2, ix, n1, n2) ==
    FilletCenter(e, radius, s1, s2, ix,
                 lineLineInf(OffsetBy(s1.a, n1, radius), OffsetBy(s1.b, n1, radius),
                             OffsetBy(s2.a, n2, radius), OffsetBy(s2.b, n2, radius)))

FilletDirections(e, radius, s1, s2, ix, v1, v2) ==
    FilletNormals(e, radius, s1, s2, ix, Inward(v1, v2), Inward(v2, v1))

FilletLengths(e, radius, s1, s2, ix, far1, far2, lenV1, lenV2) ==
    IF NearZero(lenV1) \/ NearZero(lenV2) THEN e.preview
    ELSE FilletDirections(e, radius, s1, s2, ix,
                          UnitFrom(far1, ix, lenV1), UnitFrom(far2, ix, lenV2))

FilletFar(e, radius, s1, s2, ix, far1, far2) ==
    FilletLengths(e, radius, s1, s2, ix, far1, far2, Dist(far1, ix), Dist(far2, ix))

(* _showPreview without its branch for a radius below 1e-6 *)
C22_NoSharpCorner(e, radius, s1, s2, ix) ==
    IF ix = Null THEN e.preview
    ELSE FilletFar(e, radius, s1, s2, ix, FarEnd(s1, ix), FarEnd(s2, ix))

FilletCorner(e, radius, s1, s2, ix) ==
    IF ix = Null THEN e.preview
    ELSE IF RLt(radius, <<1, 1000000>>)
      THEN [list |-> <<Marker(ix, 4, e.zoom, "#ffcc00")>>]
    ELSE FilletFar(e, radius, s1, s2, ix, FarEnd(s1, ix), FarEnd(s2, ix))

(* FilletTool._showPreview: the value engine.preview holds afterwards *)
showPreview(e, radius, s1, s2) ==
    FilletCorner(e, radius, s1, s2, lineLineInf(s1.a, s1.b, s2.a, s2.b))

(***************************************************************************)
(* The running system: s = [engine, manager, tools, calls, api, switches]  *)
(*   engine   CanvasEngine fields                                          *)
(*   manager  ToolManager fields; toolChanged is the name last passed to   *)
(*            onToolChanged                                                *)
(*   tools    the command state of every tool object                       *)
(*   calls    collaborator requests in flight with their continuations     *)
(*   api      the collaborator's committed project                         *)
(*   switches number of tool changes the user has asked for                *)
(***************************************************************************)
ToolNames == {"select", "line", "rectangle", "circle", "arc", "ellipse", "polyline",
              "dimension", "copy", "scale", "transform", "array", "fillet"}

SnapTolerance == 15

(***************************************************************************)
(* CanvasEngine: zoom and pan                                              *)
(***************************************************************************)
(* minZoom = 0.02 and maxZoom = 50 *)
MinZoom == <<1, 50>>
MaxZoom == R(50)

(* the client size of the container that resize() copies to width, height *)
CanvasSize == P(800, 600)

(* deltaY < 0 ? 1.1 : 0.9, and the 1.2 of zoomIn and zoomOut *)
WheelFactor(up) == IF up THEN <<11, 10>> ELSE <<9, 10>>
ButtonFactor == <<6, 5>>

(* the zoom is set to z and pan is moved by (worldAfter - worldBefore) * z *)
ZoomAbout(e, pos, z) ==
    Bind2(screenToWorld(e, pos), screenToWorld([e EXCEPT !.zoom = z], pos),
          LAMBDA worldBefore, worldAfter :
              [e EXCEPT !.zoom = z,
                        !.pan = <<RAdd(e.pan[1], RMul(RSub(worldAfter[1], worldBefore[1]), z)),
                                  RAdd(e.pan[2], RMul(RSub(worldAfter[2], worldBefore[2]), z))>>])

(* _onWheel changing the zoom only *)
C11_KeepsPan(e, pos, up) ==
    [e EXCEPT !.zoom = RMax(MinZoom, RMin(MaxZoom, RMul(e.zoom, WheelFactor(up))))]

(* CanvasEngine._onWheel *)
engine_onWheel(e, pos, up) ==
    ZoomAbout(e, pos, RMax(MinZoom, RMin(MaxZoom, RMul(e.zoom, WheelFactor(up)))))

CanvasCenter(e) == <<RDiv(e.width, R(2)), RDiv(e.height, R(2))>>

(* CanvasEngine.zoomIn *)
zoomIn(e) == ZoomAbout(e, CanvasCenter(e), RMin(MaxZoom, RMul(e.zoom, ButtonFactor)))

(* zoomOut without Math.max(minZoom, ...) *)
C12_UnclampedOut(e) == ZoomAbout(e, CanvasCenter(e), RDiv(e.zoom, ButtonFactor))

(* CanvasEngine.zoomOut *)
zoomOut(e) == ZoomAbout(e, CanvasCenter(e), RMax(MinZoom, RDiv(e.zoom, ButtonFactor)))

FitPadding == R(50)

(* the bounding boxes zoomToFit finds, as low and high corners *)
FitBoxes(e) == SelectSeq(MapSeq(e.shapes, getBoundingBox), LAMBDA bb : bb.ok)
FitLows(e) == MapSeq(FitBoxes(e), LAMBDA bb : <<bb.x, bb.y>>)
FitHighs(e) == MapSeq(FitBoxes(e), LAMBDA bb : <<RAdd(bb.x, bb.w), RAdd(bb.y, bb.h)>>)

FitZoom(e, dw, dh) ==
    RMax(MinZoom, RMin(MaxZoom, RMin(RDiv(RSub(e.width, RMul(FitPadding, R(2))), dw),
                                     RDiv(RSub(e.height, RMul(FitPadding, R(2))), dh))))

FitCentred(e, cx, cy, z) ==
    [e EXCEPT !.zoom = z,
              !.pan = <<RSub(CanvasCenter(e)[1], RMul(cx, z)), RSub(CanvasCenter(e)[2], RMul(cy, z))>>]

FitTo(e, minX, minY, maxX, maxY) ==
    FitCentred(e, RDiv(RAdd(minX, maxX), R(2)), RDiv(RAdd(minY, maxY), R(2)),
               FitZoom(e, RMax(R(1), RSub(maxX, minX)), RMax(R(1), RSub(maxY, minY))))

(* CanvasEngine.zoomToFit *)
zoomToFit(e) ==
    IF Len(FitBoxes(e)) = 0
    THEN [e EXCEPT !.pan = CanvasCenter(e), !.zoom = R(1)]
    ELSE FitTo(e, PtsExtreme(FitLows(e), 1, 1, FALSE), PtsExtreme(FitLows(e), 2, 1, FALSE),
               PtsExtreme(FitHighs(e), 1, 1, TRUE), PtsExtreme(FitHighs(e), 2, 1, TRUE))

(* CanvasEngine constructor *)
NewEngine(shapes, locked) ==
    [shapes |-> shapes, locked |-> locked, zoom |-> R(1), pan |-> P(0, 0), gridSize |-> R(10),
     selectedIds |-> {}, hoveredId |-> {}, preview |-> Null, snapPoint |-> NoSnap,
     snapBasePoint |-> Null, snapSettings |-> [k \in SnapKinds |-> TRUE],
     selectionBox |-> Null, lastMouse |-> P(0, 0), width |-> CanvasSize[1],
     height |-> CanvasSize[2], isPanning |-> FALSE, panStart |-> Null]

(* ToolManager constructor, after its setTool('select') *)
NewManager ==
    [currentTool |-> "select", gridSnap |-> TRUE, snapEnabled |-> TRUE, toolChanged |-> "select"]

(* the constructors of the tool classes *)
NewTools ==
    [select |-> [isDragging |-> FALSE, startPos |-> Null, mode |-> "click"],
     line |-> [p1 |-> Null],
     rectangle |-> [p1 |-> Null],
     circle |-> [center |-> Null],
     polyline |-> [points |-> <<>>],
     arc |-> [center |-> Null, startPoint |-> Null, radius |-> R(0)],
     ellipse |-> [center |-> Null, rx |-> R(0)],
     dimension |-> [p1 |-> Null, p2 |-> Null],
     copy |-> [basePoint |-> Null],
     scale |-> [state |-> "pick_base", basePoint |-> Null, refPoint1 |-> Null, refPoint2 |-> Null,
                ids |-> {}, baseShapes |-> <<>>, scaleFactor |-> R(1), mode |-> "normal",
                isCopy |-> FALSE],
     transform |-> [state |-> "pick_base", mode |-> "move", isCopy |-> FALSE, basePoint |-> Null,
                    ids |-> {}, baseShapes |-> <<>>, dx |-> R(0), dy |-> R(0), angle |-> R(0)],
     array |-> [ids |-> {}, baseShapes |-> <<>>, mode |-> "rectangular", state |-> "configure",
                rows |-> 3, cols |-> 3, rowSpacing |-> R(50), colSpacing |-> R(50),
                count |-> 6, totalAngle |-> R(360), rotateItems |-> TRUE, center |-> Null],
     fillet |-> [radius |-> R(10), firstShape |-> Null, firstClickPt |-> Null]]

(* the collaborator's project: committed shapes and the next identifier *)
NewApi(shapes) == [shapes |-> shapes, nextId |-> Len(shapes) + 1]

NewSys(shapes, locked) ==
    [engine |-> NewEngine(shapes, locked), manager |-> NewManager, tools |-> NewTools,
     calls |-> <<>>, api |-> NewApi(shapes), switches |-> 0]

(* CanvasEngine.isShapeLocked *)
isShapeLocked(e, id) == id \in e.locked

(* ToolManager.applySnap: the point returned *)
applySnap(s, world) ==
    LET gs == s.engine.gridSize
    IN  IF ~s.manager.snapEnabled THEN world
        ELSE IF s.engine.snapPoint # NoSnap THEN s.engine.snapPoint.point
        ELSE IF s.manager.gridSnap /\ gs # R(0)
          THEN <<RMul(R(RRound(RDiv(world[1], gs))), gs), RMul(R(RRound(RDiv(world[2], gs))), gs)>>
        ELSE world

(* ToolManager.applySnap: its write of engine.snapBasePoint *)
applySnapBase(s, basePoint) ==
    IF s.manager.snapEnabled /\ basePoint # Null
    THEN [s EXCEPT !.engine.snapBasePoint = basePoint] ELSE s

(* tools.onShapeCreated as wired by IndCADApp._connectToolCallbacks: the     *)
(* add_shape request is sent at once, its continuation reloads the project *)
onShapeCreated(s, shape) ==
    [s EXCEPT !.calls = Append(@, [kind |-> "add_shape", shape |-> shape])]

(* tools.onProjectUpdated: IndCADApp._loadProjectData up to its await *)
onProjectUpdated(s) == [s EXCEPT !.calls = Append(@, [kind |-> "get_project_data"])]

NewShape(type, a, b, r, pts) ==
    [id |-> 0, type |-> type, hidden |-> FALSE, a |-> a, b |-> b, r |-> r, pts |-> pts,
     closed |-> FALSE]

Rubber(p, q, color) == [type |-> "line", a |-> p, b |-> q, color |-> color]

(* BaseTool.deactivate *)
deactivate(s) == [s EXCEPT !.engine.preview = Null, !.engine.snapBasePoint = Null]

(* ToolManager.setTool('select'), the call the tools themselves make *)
setToolSelect(s) ==
    [deactivate(s) EXCEPT !.manager.currentTool = "select", !.manager.toolChanged = "select"]

(***************************************************************************)
(* SelectTool                                                              *)
(***************************************************************************)
SelectTool_onMouseDown(s, world, ctrl) ==
    Bind(hitTest(s.engine, world), LAMBDA hit :
        IF hit = {} \/ isShapeLocked(s.engine, CHOOSE i \in hit : TRUE)
        THEN [s EXCEPT !.tools.select.startPos = world, !.tools.select.isDragging = TRUE,
                       !.engine.selectedIds = IF ctrl THEN @ ELSE {},
                       !.tools.select.mode = "box"]
        ELSE [s EXCEPT !.tools.select.startPos = world, !.tools.select.isDragging = TRUE,
                       !.engine.selectedIds =
                           IF ctrl THEN (IF hit \subseteq @ THEN @ \ hit ELSE @ \cup hit)
                           ELSE IF hit \subseteq @ THEN @ ELSE hit,
                       !.tools.select.mode = "click"])

SelectTool_onMouseMove(s, world) ==
    IF s.tools.select.isDragging /\ s.tools.select.mode = "box"
    THEN [s EXCEPT !.engine.selectionBox =
              [x1 |-> s.tools.select.startPos[1], y1 |-> s.tools.select.startPos[2],
               x2 |-> world[1], y2 |-> world[2]]]
    ELSE [s EXCEPT !.engine.hoveredId = hitTest(s.engine, world)]

(* a mouse-up that treats every box as a crossing selection *)
C8_AlwaysCrossing(s) ==
    [s EXCEPT !.tools.select.isDragging = FALSE,
              !.engine.selectedIds =
                  IF s.tools.select.mode = "box" /\ s.engine.selectionBox # Null
                  THEN @ \cup getShapesInBox(s.engine, s.engine.selectionBox.x1,
                                             s.engine.selectionBox.y1, s.engine.selectionBox.x2,
                                             s.engine.selectionBox.y2, TRUE)
                  ELSE @,
              !.engine.selectionBox = Null]

SelectTool_onMouseUp(s) ==
    LET box == s.engine.selectionBox
        crossing == RLt(box.x2, box.x1)
        s0 == [s EXCEPT !.tools.select.isDragging = FALSE]
    IN  IF s.tools.select.mode = "box" /\ box # Null
        THEN [s0 EXCEPT !.engine.selectedIds =
                            @ \cup getShapesInBox(s.engine, box.x1, box.y1, box.x2, box.y2, crossing),
                        !.engine.selectionBox = Null]
        ELSE s0

SelectTool_onKeyDown(s, key) ==
    IF key = "Escape" THEN [s EXCEPT !.engine.selectedIds = {}] ELSE s

(***************************************************************************)
(* LineTool, RectangleTool, CircleTool, PolylineTool                       *)
(***************************************************************************)
LineTool_activate(s) == [s EXCEPT !.engine.snapBasePoint = Null]

LineTool_onMouseDown(s, world) ==
    LET snapped == applySnap(s, world)
        p1 == s.tools.line.p1
    IN  IF p1 = Null
        THEN [s EXCEPT !.tools.line.p1 = snapped, !.engine.snapBasePoint = snapped]
        ELSE [onShapeCreated(s, NewShape("line", p1, snapped, R(0), <<>>))
                EXCEPT !.tools.line.p1 = Null, !.engine.preview = Null,
                       !.engine.snapBasePoint = Null]

(* a pointer move of the line command that commits the segment *)
C4_MoveCommits(s, world) == onShapeCreated(s, NewShape("line", world, world, R(0), <<>>))

LineTool_onMouseMove(s, world) ==
    LET p1 == s.tools.line.p1
    IN  IF p1 # Null
        THEN [applySnapBase(s, p1) EXCEPT !.engine.preview = Rubber(p1, applySnap(s, world), "#aaa")]
        ELSE s

LineTool_onKeyDown(s, key) ==
    IF key = "Escape"
    THEN [s EXCEPT !.tools.line.p1 = Null, !.engine.preview = Null, !.engine.snapBasePoint = Null]
    ELSE s

RectFrom(p, q) ==
    NewShape("rectangle", <<RMin(p[1], q[1]), RMin(p[2], q[2])>>,
             <<RAbs(RSub(q[1], p[1])), RAbs(RSub(q[2], p[2]))>>, R(0), <<>>)

RectangleTool_onMouseDown(s, world) ==
    LET snapped == applySnap(s, world)
        p1 == s.tools.rectangle.p1
    IN  IF p1 = Null THEN [s EXCEPT !.tools.rectangle.p1 = snapped]
        ELSE [onShapeCreated(s, RectFrom(p1, snapped))
                EXCEPT !.tools.rectangle.p1 = Null, !.engine.preview = Null]

RectangleTool_onMouseMove(s, world) ==
    LET p1 == s.tools.rectangle.p1
        r == RectFrom(p1, applySnap(s, world))
    IN  IF p1 # Null
        THEN [applySnapBase(s, p1) EXCEPT
                 !.engine.preview = [type |-> "rectangle", a |-> r.a, b |-> r.b, color |-> "#aaa"]]
        ELSE s

RectangleTool_onKeyDown(s, key) ==
    IF key = "Escape" THEN [s EXCEPT !.tools.rectangle.p1 = Null, !.engine.preview = Null] ELSE s

CircleTool_activate(s) == [s EXCEPT !.engine.snapBasePoint = Null]

CircleTool_onMouseDown(s, world) ==
    LET snapped == applySnap(s, world)
        c == s.tools.circle.center
    IN  IF c = Null
        THEN [s EXCEPT !.tools.circle.center = snapped, !.engine.snapBasePoint = snapped]
        ELSE [onShapeCreated(s, NewShape("circle", c, P(0, 0), Dist(c, snapped), <<>>))
                EXCEPT !.tools.circle.center = Null, !.engine.preview = Null,
                       !.engine.snapBasePoint = Null]

CircleTool_onMouseMove(s, world) ==
    LET c == s.tools.circle.center
    IN  IF c # Null
        THEN [applySnapBase(s, c) EXCEPT
                 !.engine.preview = [type |-> "circle", c |-> c, r |-> Dist(c, applySnap(s, world)),
                                     color |-> "#aaa"]]
        ELSE s

CircleTool_onKeyDown(s, key) ==
    IF key = "Escape"
    THEN [s EXCEPT !.tools.circle.center = Null, !.engine.preview = Null,
                   !.engine.snapBasePoint = Null]
    ELSE s

PolylineTool_activate(s) == [s EXCEPT !.tools.polyline.points = <<>>, !.engine.snapBasePoint = Null]

PolylineTool_onMouseDown(s, world) ==
    [s EXCEPT !.tools.polyline.points = Append(@, applySnap(s, world)),
              !.engine.snapBasePoint = applySnap(s, world)]

PolylineTool_onMouseMove(s, world) ==
    LET pts == s.tools.polyline.points
    IN  IF Len(pts) > 0
        THEN [applySnapBase(s, pts[Len(pts)]) EXCEPT
                 !.engine.preview = [type |-> "polyline", pts |-> Append(pts, applySnap(s, world)),
                                     color |-> "#aaa", closed |-> FALSE]]
        ELSE s

(* PolylineTool.onDoubleClick and the Enter branch of PolylineTool.onKeyDown *)
PolylineTool_finish(s) ==
    LET pts == s.tools.polyline.points
        s0 == IF Len(pts) >= 2 THEN onShapeCreated(s, NewShape("polyline", P(0, 0), P(0, 0), R(0), pts))
              ELSE s
    IN  [s0 EXCEPT !.tools.polyline.points = <<>>, !.engine.preview = Null,
                   !.engine.snapBasePoint = Null]

PolylineTool_onKeyDown(s, key) ==
    IF key = "Enter" THEN PolylineTool_finish(s)
    ELSE IF key = "Escape"
      THEN [s EXCEPT !.tools.polyline.points = <<>>, !.engine.preview = Null,
                     !.engine.snapBasePoint = Null]
    ELSE s

(***************************************************************************)
(* ArcTool, EllipseTool, DimensionTool                                     *)
(***************************************************************************)
ArcTool_activate(s) == [s EXCEPT !.tools.arc.center = Null, !.tools.arc.startPoint = Null]

ArcTool_onMouseDown(s, world) ==
    LET snapped == applySnap(s, world)
        a == s.tools.arc
    IN  IF a.center = Null THEN [s EXCEPT !.tools.arc.center = snapped]
        ELSE IF a.startPoint = Null
          THEN [s EXCEPT !.tools.arc.startPoint = snapped, !.engine.snapBasePoint = snapped,
                         !.tools.arc.radius = Dist(a.center, snapped)]
        ELSE ArcTool_activate(onShapeCreated(s,
                 NewShape("arc", a.center, <<ArcAngle(a.center, a.startPoint), ArcAngle(a.center, snapped)>>,
                          a.radius, <<>>)))

ArcTool_onMouseMove(s, world) ==
    LET snapped == applySnap(s, world)
        a == s.tools.arc
    IN  IF a.center = Null THEN s
        ELSE IF a.startPoint = Null
          THEN [s EXCEPT !.engine.preview = [type |-> "circle", c |-> a.center,
                                             r |-> Dist(a.center, snapped), color |-> "#aaa"]]
        ELSE [s EXCEPT !.engine.preview =
                  [type |-> "arc", c |-> a.center, r |-> a.radius,
                   startAngle |-> ArcAngle(a.center, a.startPoint),
                   endAngle |-> ArcAngle(a.center, snapped), color |-> "#aaa"]]

ArcTool_onKeyDown(s, key) == IF key = "Escape" THEN ArcTool_activate(s) ELSE s

EllipseTool_activate(s) == [s EXCEPT !.tools.ellipse.center = Null]

(* Math.abs(d) || 1 *)
AbsOrOne(d) == IF d = R(0) THEN R(1) ELSE RAbs(d)

EllipseTool_onMouseDown(s, world) ==
    LET snapped == applySnap(s, world)
        el == s.tools.ellipse
    IN  IF el.center = Null THEN [s EXCEPT !.tools.ellipse.center = snapped]
        ELSE IF el.rx = R(0)
          THEN [s EXCEPT !.tools.ellipse.rx = AbsOrOne(RSub(snapped[1], el.center[1]))]
        ELSE EllipseTool_activate(
                 [onShapeCreated(s, NewShape("ellipse", el.center,
                                             <<el.rx, AbsOrOne(RSub(snapped[2], el.center[2]))>>,
                                             R(0), <<>>))
                    EXCEPT !.tools.ellipse.rx = R(0)])

EllipseTool_onMouseMove(s, world) ==
    LET snapped == applySnap(s, world)
        el == s.tools.ellipse
    IN  IF el.center = Null THEN s
        ELSE IF el.rx = R(0)
          THEN [s EXCEPT !.engine.preview = Rubber(el.center, snapped, "#aaa")]
        ELSE [s EXCEPT !.engine.preview =
                  [type |-> "ellipse", c |-> el.center, rx |-> el.rx,
                   ry |-> RAbs(RSub(snapped[2], el.center[2])), color |-> "#aaa"]]

EllipseTool_onKeyDown(s, key) == IF key = "Escape" THEN EllipseTool_activate(s) ELSE s

DimensionTool_activate(s) == [s EXCEPT !.tools.dimension.p1 = Null, !.tools.dimension.p2 = Null]

(* the perpendicular offset of world from p1-p2, 20 when it is 0 or NaN *)
DimOffset(p1, p2, world) ==
    LET dx == RSub(p2[1], p1[1])
        dy == RSub(p2[2], p1[2])
        num == RAdd(RMul(RSub(world[1], p1[1]), RNeg(dy)), RMul(RSub(world[2], p1[2]), dx))
    IN  IF num = R(0) THEN R(20) ELSE RDiv(num, Dist(p1, p2))

DimensionTool_onMouseDown(s, world) ==
    LET snapped == applySnap(s, world)
        d == s.tools.dimension
    IN  IF d.p1 = Null THEN [s EXCEPT !.tools.dimension.p1 = snapped]
        ELSE IF d.p2 = Null THEN [s EXCEPT !.tools.dimension.p2 = snapped]
        ELSE DimensionTool_activate(onShapeCreated(s,
                 NewShape("dimension", d.p1, d.p2, DimOffset(d.p1, d.p2, world), <<>>)))

DimensionTool_onMouseMove(s, world) ==
    LET snapped == applySnap(s, world)
        d == s.tools.dimension
    IN  IF d.p1 = Null THEN s
        ELSE IF d.p2 = Null THEN [s EXCEPT !.engine.preview = Rubber(d.p1, snapped, "#aaa")]
        ELSE [s EXCEPT !.engine.preview =
                  [type |-> "dimension", a |-> d.p1, b |-> d.p2,
                   offset |-> DimOffset(d.p1, d.p2, world), color |-> "#aaa"]]

DimensionTool_onKeyDown(s, key) == IF key = "Escape" THEN DimensionTool_activate(s) ELSE s

(***************************************************************************)
(* CopyTool                                                                *)
(***************************************************************************)
CopyTool_activate(s) ==
    LET s0 == [s EXCEPT !.tools.copy.basePoint = Null]
    IN  IF s.engine.selectedIds = {} THEN setToolSelect(s0) ELSE s0

(* CopyTool._copy up to its await *)
CopyTool_copy(s, dx, dy) ==
    [s EXCEPT !.calls = Append(@, [kind |-> "copy", ids |-> s.engine.selectedIds,
                                   dx |-> dx, dy |-> dy])]

CopyTool_onMouseDown(s, world) ==
    LET snapped == applySnap(s, world)
        bp == s.tools.copy.basePoint
    IN  IF bp = Null THEN [s EXCEPT !.tools.copy.basePoint = snapped]
        ELSE CopyTool_copy(s, RSub(snapped[1], bp[1]), RSub(snapped[2], bp[2]))

CopyTool_onMouseMove(s, world) ==
    LET bp == s.tools.copy.basePoint
    IN  IF bp # Null THEN [s EXCEPT !.engine.preview = Rubber(bp, applySnap(s, world), "#888")]
        ELSE s

CopyTool_onKeyDown(s, key) ==
    IF key = "Escape" THEN setToolSelect([s EXCEPT !.tools.copy.basePoint = Null]) ELSE s

(***************************************************************************)
(* ScaleTool                                                               *)
(***************************************************************************)
Styled(shape, color) == [shape |-> shape, color |-> color]

SelectedShapes(s) == SelectSeq(s.engine.shapes, LAMBDA sh : sh.id \in s.engine.selectedIds)

ScaleTool_reset(s) ==
    [s EXCEPT !.tools.scale.state = "pick_base", !.tools.scale.basePoint = Null,
              !.tools.scale.refPoint1 = Null, !.tools.scale.refPoint2 = Null,
              !.tools.scale.mode = "normal", !.engine.preview = Null]

ScaleTool_activate(s) ==
    LET s0 == [s EXCEPT !.tools.scale.ids = s.engine.selectedIds]
    IN  IF s.engine.selectedIds = {} THEN setToolSelect(s0)
        ELSE ScaleTool_reset([s0 EXCEPT !.tools.scale.baseShapes = SelectedShapes(s)])

(* ScaleTool._finishScale up to its first await *)
ScaleTool_finishScale(s, factor) ==
    LET sc == s.tools.scale
    IN  [s EXCEPT !.calls = Append(@,
            IF sc.isCopy
            THEN [kind |-> "scale", stage |-> "copy", ids |-> sc.ids, dx |-> R(0), dy |-> R(0),
                  factor |-> factor, made |-> {}]
            ELSE [kind |-> "scale", stage |-> "scale", ids |-> sc.ids, base |-> sc.basePoint,
                  factor |-> factor, made |-> {}])]

ScaleTool_onMouseDown(s, world) ==
    LET snapped == applySnap(s, world)
        sc == s.tools.scale
    IN  IF sc.state = "pick_base"
          THEN [s EXCEPT !.tools.scale.basePoint = snapped, !.tools.scale.state = "pick_factor"]
        ELSE IF sc.state = "pick_factor" THEN ScaleTool_finishScale(s, sc.scaleFactor)
        ELSE IF sc.state = "ref_1"
          THEN [s EXCEPT !.tools.scale.refPoint1 = snapped, !.tools.scale.state = "ref_2"]
        ELSE IF sc.state = "ref_2"
          THEN [s EXCEPT !.tools.scale.refPoint2 = snapped, !.tools.scale.state = "ref_new"]
        ELSE IF sc.state = "ref_new" /\ RLt(R(0), Dist(sc.refPoint1, sc.refPoint2))
          THEN ScaleTool_finishScale(s, RDiv(Dist(sc.basePoint, snapped), Dist(sc.refPoint1, sc.refPoint2)))
        ELSE s

ScalePreview(sc, factor, snapped, color, band) ==
    [list |-> [i \in DOMAIN sc.baseShapes |-> Styled(getScaledShape(sc.baseShapes[i], sc.basePoint, factor), color)]
              \o <<Rubber(sc.basePoint, snapped, band)>>]

(* (dist / (100 / zoom)) || 1, at least 0.001 *)
DirectFactor(raw) ==
    IF raw = R(0) THEN R(1) ELSE IF RLt(raw, <<1, 1000>>) THEN <<1, 1000>> ELSE raw

RefRatio(d, refDist) == IF RLt(R(0), refDist) THEN RDiv(d, refDist) ELSE R(1)

ScaleDirect(s, snapped, f) ==
    [s EXCEPT !.tools.scale.scaleFactor = f,
              !.engine.preview = ScalePreview(s.tools.scale, f, snapped,
                                     IF s.tools.scale.isCopy THEN "#00ff00" ELSE "#ffff00", "#888")]

ScaleTool_onMouseMove(s, world) ==
    Bind(applySnap(s, world), LAMBDA snapped :
        IF s.tools.scale.state = "pick_factor" /\ s.tools.scale.mode = "normal"
          THEN ScaleDirect(s, snapped,
                           DirectFactor(RDiv(Dist(s.tools.scale.basePoint, snapped),
                                             RDiv(R(100), s.engine.zoom))))
        ELSE IF s.tools.scale.state = "ref_new"
          THEN [s EXCEPT !.engine.preview =
                   ScalePreview(s.tools.scale,
                                RefRatio(Dist(s.tools.scale.basePoint, snapped),
                                         Dist(s.tools.scale.refPoint1, s.tools.scale.refPoint2)),
                                snapped, "#ffff00", "#aaa")]
        ELSE s)

(* a key handler whose R key skips the first reference point *)
C20_KeySkipsRef(s, key, ans) ==
    IF key = "Escape" THEN setToolSelect(s)
    ELSE IF key = "r" /\ s.tools.scale.state = "pick_factor"
      THEN [s EXCEPT !.tools.scale.mode = "reference", !.tools.scale.state = "ref_2"]
    ELSE s

(* ScaleTool.onKeyDown; ans is what the user types into a prompt, Null when cancelled *)
ScaleTool_onKeyDown(s, key, ans) ==
    LET sc == s.tools.scale
    IN  IF key = "Escape" THEN setToolSelect(s)
        ELSE IF key = "r" /\ sc.state = "pick_factor"
          THEN [s EXCEPT !.tools.scale.mode = "reference", !.tools.scale.state = "ref_1"]
        ELSE IF key = "c" /\ sc.state = "pick_factor"
          THEN ScaleTool_onMouseMove([s EXCEPT !.tools.scale.isCopy = ~sc.isCopy],
                                     screenToWorld(s.engine, s.engine.lastMouse))
        ELSE IF key = "Enter" /\ sc.state = "pick_factor" /\ ans.factor # Null
          THEN ScaleTool_finishScale(s, ans.factor)
        ELSE s

ScaleTool_handles(s, key) ==
    key = "Escape" \/ (key \in {"r", "c", "Enter"} /\ s.tools.scale.state = "pick_factor")

(***************************************************************************)
(* TransformTool                                                           *)
(***************************************************************************)
TransformTool_reset(s) ==
    [s EXCEPT !.tools.transform.state = "pick_base", !.tools.transform.mode = "move",
              !.tools.transform.isCopy = FALSE, !.tools.transform.basePoint = Null,
              !.tools.transform.dx = R(0), !.tools.transform.dy = R(0),
              !.tools.transform.angle = R(0), !.engine.preview = Null]

TransformTool_activate(s) ==
    LET s0 == [s EXCEPT !.tools.transform.ids = s.engine.selectedIds]
    IN  IF s.engine.selectedIds = {} THEN setToolSelect(s0)
        ELSE TransformTool_reset([s0 EXCEPT !.tools.transform.baseShapes = SelectedShapes(s)])

(* the translate_shapes / rotate_shapes request of TransformTool._finish *)
TransformRequest(tr, ids, made) ==
    IF tr.mode = "move"
    THEN [kind |-> "transform", stage |-> "translate", ids |-> ids, dx |-> tr.dx, dy |-> tr.dy,
          made |-> made]
    ELSE [kind |-> "transform", stage |-> "rotate", ids |-> ids, base |-> tr.basePoint,
          angle |-> tr.angle, made |-> made]

(* TransformTool._finish up to its first await *)
TransformTool_finish(s) ==
    LET tr == s.tools.transform
    IN  [s EXCEPT !.calls = Append(@,
            IF tr.isCopy
            THEN [kind |-> "transform", stage |-> "copy", ids |-> tr.ids, dx |-> R(0), dy |-> R(0),
                  made |-> {}]
            ELSE TransformRequest(tr, tr.ids, {}))]

TransformTool_onMouseDown(s, world) ==
    LET snapped == applySnap(s, world)
        tr == s.tools.transform
    IN  IF tr.state = "pick_base"
          THEN [s EXCEPT !.tools.transform.basePoint = snapped, !.tools.transform.state = "transforming",
                         !.tools.transform.dx = R(0), !.tools.transform.dy = R(0),
                         !.tools.transform.angle = R(0)]
        ELSE IF tr.state = "transforming" THEN TransformTool_finish(s)
        ELSE s

(* the shape the preview shows for base shape sh *)
TransformShown(tr, sh, moved) ==
    IF tr.mode = "move" THEN getTranslatedShape(sh, moved[1], moved[2])
    ELSE getRotatedShape(sh, tr.basePoint, moved)

TransformPreview(tr, snapped, moved) ==
    [list |-> [i \in DOMAIN tr.baseShapes |->
                  Styled(TransformShown(tr, tr.baseShapes[i], moved),
                         IF tr.isCopy THEN "#00ff00" ELSE "#ffff00")]
              \o <<Rubber(tr.basePoint, snapped, "#888")>>]

TransformTool_onMouseMove(s, world) ==
    Bind(applySnap(s, world), LAMBDA snapped :
        IF s.tools.transform.state = "transforming" /\ s.tools.transform.mode = "move"
          THEN [s EXCEPT !.tools.transform.dx = RSub(snapped[1], s.tools.transform.basePoint[1]),
                         !.tools.transform.dy = RSub(snapped[2], s.tools.transform.basePoint[2]),
                         !.engine.preview =
                             TransformPreview(s.tools.transform, snapped,
                                              Sub2(snapped, s.tools.transform.basePoint))]
        ELSE IF s.tools.transform.state = "transforming" /\ s.tools.transform.mode = "rotate"
          THEN Bind(Atan2Deg(RSub(snapped[2], s.tools.transform.basePoint[2]),
                             RSub(snapped[1], s.tools.transform.basePoint[1])), LAMBDA angle :
                   [s EXCEPT !.tools.transform.angle = angle,
                             !.engine.preview = TransformPreview(s.tools.transform, snapped, angle)])
        ELSE s)

TransformTool_onKeyDown(s, key) ==
    IF key = "Escape" THEN setToolSelect(s)
    ELSE IF s.tools.transform.state = "transforming" /\ key \in {"r", "c"}
      THEN TransformTool_onMouseMove(
               IF key = "r"
               THEN [s EXCEPT !.tools.transform.mode = IF @ = "move" THEN "rotate" ELSE "move"]
               ELSE [s EXCEPT !.tools.transform.isCopy = ~@],
               screenToWorld(s.engine, s.engine.lastMouse))
    ELSE s

TransformTool_handles(s, key) ==
    key = "Escape" \/ (key \in {"r", "c"} /\ s.tools.transform.state = "transforming")

(***************************************************************************)
(* ArrayTool.  ans holds what the user types into the prompts: Null for a  *)
(* cancelled spacing, angle, radius or factor, Cancelled for a cancelled   *)
(* count, "" for a cancelled mode.                                         *)
(***************************************************************************)
Max(a, b) == IF a < b THEN b ELSE a

(* the answer of a prompt for a number that the user cancelled or left empty *)
Cancelled == -1

(* parseInt(text) || dflt *)
IntOr(n, dflt) == IF n = 0 THEN dflt ELSE n

(* the corner points ArrayTool._getSelectionBBox expands by *)
ExtentPoints(sh) ==
    IF sh.type = "line" THEN <<sh.a, sh.b>>
    ELSE IF sh.type = "rectangle" THEN <<sh.a, Shift(sh.a, sh.b[1], sh.b[2])>>
    ELSE IF sh.type = "circle" THEN <<Shift(sh.a, RNeg(sh.r), RNeg(sh.r)), Shift(sh.a, sh.r, sh.r)>>
    ELSE IF sh.type = "polyline" THEN sh.pts
    ELSE <<>>

(* ArrayTool._getSelectionBBox: the centre (cx, cy), Null for no extent *)
getSelectionBBox(baseShapes) ==
    LET pts == Concat([i \in DOMAIN baseShapes |-> ExtentPoints(baseShapes[i])])
    IN  IF pts = <<>> THEN Null
        ELSE <<RDiv(RAdd(PtsExtreme(pts, 1, 1, FALSE), PtsExtreme(pts, 1, 1, TRUE)), R(2)),
               RDiv(RAdd(PtsExtreme(pts, 2, 1, FALSE), PtsExtreme(pts, 2, 1, TRUE)), R(2))>>

(* the cells (r, c) # (0, 0) in the order of the two nested loops *)
RectCells(rows, cols) ==
    SelectSeq([k \in 1..(rows * cols) |-> <<(k - 1) \div cols, (k - 1) % cols>>],
              LAMBDA rc : rc # <<0, 0>>)

(* ArrayTool._generateRectPreview: the preview list *)
generateRectPreview(ar) ==
    [list |-> FlatMap(RectCells(ar.rows, ar.cols), LAMBDA rc :
        MapSeq(ar.baseShapes, LAMBDA sh :
            Styled(getTranslatedShape(sh, RMul(R(rc[2]), ar.colSpacing),
                                      RMul(R(rc[1]), ar.rowSpacing)),
                   "#00ccff")))]

ArrayTool_configureRectangular(s, ans) ==
    LET s1 == [s EXCEPT !.tools.array.rows = Max(1, IntOr(ans.rows, 1))]
        s2 == [s1 EXCEPT !.tools.array.cols = Max(1, IntOr(ans.cols, 1))]
        s3 == [s2 EXCEPT !.tools.array.rowSpacing = IF ans.rowSpacing = R(0) THEN R(50) ELSE ans.rowSpacing]
        s4 == [s3 EXCEPT !.tools.array.colSpacing = IF ans.colSpacing = R(0) THEN R(50) ELSE ans.colSpacing,
                         !.tools.array.state = "preview"]
    IN  IF ans.rows = Cancelled THEN setToolSelect(s)
        ELSE IF ans.cols = Cancelled THEN setToolSelect(s1)
        ELSE IF ans.rowSpacing = Null THEN setToolSelect(s2)
        ELSE IF ans.colSpacing = Null THEN setToolSelect(s3)
        ELSE [s4 EXCEPT !.engine.preview = generateRectPreview(s4.tools.array)]

ArrayTool_configurePolar(s, ans) ==
    LET s1 == [s EXCEPT !.tools.array.count = Max(2, IntOr(ans.count, 6))]
    IN  IF ans.count = Cancelled THEN setToolSelect(s)
        ELSE IF ans.angle = Null THEN setToolSelect(s1)
        ELSE [s1 EXCEPT !.tools.array.totalAngle = IF ans.angle = R(0) THEN R(360) ELSE ans.angle,
                        !.tools.array.rotateItems = (ans.rotate # "N"),
                        !.tools.array.state = "pick_center"]

(* ArrayTool.activate with ArrayTool._showModePrompt *)
ArrayTool_activate(s, ans) ==
    LET s0 == [s EXCEPT !.tools.array.ids = s.engine.selectedIds]
        s1 == [s0 EXCEPT !.tools.array.baseShapes = SelectedShapes(s),
                         !.tools.array.state = "configure", !.tools.array.center = Null]
    IN  IF s.engine.selectedIds = {} THEN setToolSelect(s0)
        ELSE IF ans.mode = "" THEN setToolSelect(s1)
        ELSE IF ans.mode = "P"
          THEN ArrayTool_configurePolar([s1 EXCEPT !.tools.array.mode = "polar"], ans)
        ELSE ArrayTool_configureRectangular([s1 EXCEPT !.tools.array.mode = "rectangular"], ans)

(* ArrayTool._translateShapeAroundCenter's offset, also computed by _applyPolar *)
OrbitOffset(bbox, center, deg) == Sub2(rotPt(bbox, center, deg), bbox)

(* item number i of the polar preview for base shape sh *)
PolarItem(ar, sh, deg, bbox) ==
    IF ar.rotateItems THEN rotateShapeAroundCenter(sh, ar.center, deg)
    ELSE IF bbox = Null THEN sh
    ELSE Bind(OrbitOffset(bbox, ar.center, deg), LAMBDA off :
             getTranslatedShape(sh, off[1], off[2]))

PolarItems(ar, zoom, step, bbox) ==
    [list |-> Concat([i \in 1..(ar.count - 1) |->
                  [k \in DOMAIN ar.baseShapes |->
                      Styled(PolarItem(ar, ar.baseShapes[k], RMul(step, R(i)), bbox), "#ff66cc")]])
              \o <<Marker(ar.center, 5, zoom, "#ffcc00")>>
              \o (IF bbox # Null THEN <<Rubber(ar.center, bbox, "#ffcc00")>> ELSE <<>>)]

(* ArrayTool._generatePolarPreview: the value engine.preview holds afterwards *)
generatePolarPreview(s) ==
    IF s.tools.array.center = Null THEN s.engine.preview
    ELSE PolarItems(s.tools.array, s.engine.zoom,
                    RDiv(s.tools.array.totalAngle, R(s.tools.array.count)),
                    getSelectionBBox(s.tools.array.baseShapes))

(* the cell at which the two loops of _applyRectangular stop next when they *)
(* are at (r, c), Null when they run out                                     *)
RECURSIVE RectNext(_, _, _, _)
RectNext(r, c, rows, cols) ==
    IF r >= rows THEN Null
    ELSE IF c >= cols THEN RectNext(r + 1, 0, rows, cols)
    ELSE IF r = 0 /\ c = 0 THEN RectNext(0, 1, rows, cols)
    ELSE <<r, c>>

(* the body of ArrayTool._applyRectangular with its loops at (r, c): the    *)
(* next copy_shapes request, or the code after the loops                    *)
ArrayTool_applyRectangular(s, r, c, made) ==
    Bind(RectNext(r, c, s.tools.array.rows, s.tools.array.cols), LAMBDA cell :
        IF cell # Null
        THEN [s EXCEPT !.calls = Append(@,
                 [kind |-> "rect", cell |-> cell, ids |-> s.tools.array.ids,
                  dx |-> RMul(R(cell[2]), s.tools.array.colSpacing),
                  dy |-> RMul(R(cell[1]), s.tools.array.rowSpacing), made |-> made])]
        ELSE setToolSelect([onProjectUpdated(s) EXCEPT !.engine.preview = Null]))

PolarRequest(s, i, step, bbox, made, stage, off) ==
    [kind |-> "polar", i |-> i, step |-> step, bbox |-> bbox, ids |-> s.tools.array.ids,
     made |-> made, stage |-> stage, dx |-> off[1], dy |-> off[2]]

(* the body of ArrayTool._applyPolar from item i of its loop on; step and    *)
(* bbox are the constants computed before the loop                           *)
ArrayTool_applyPolar(s, i, step, bbox, made) ==
    IF i >= s.tools.array.count \/ (~s.tools.array.rotateItems /\ bbox = Null)
      THEN setToolSelect([onProjectUpdated(s) EXCEPT !.engine.preview = Null])
    ELSE IF s.tools.array.rotateItems
      THEN [s EXCEPT !.calls = Append(@, PolarRequest(s, i, step, bbox, made, "copy", P(0, 0)))]
    ELSE IF s.tools.array.center = Null THEN s
    ELSE [s EXCEPT !.calls = Append(@,
             PolarRequest(s, i, step, bbox, made, "orbit",
                          OrbitOffset(bbox, s.tools.array.center, RMul(step, R(i)))))]

ArrayTool_apply(s) ==
    LET ar == s.tools.array
    IN  IF ar.mode = "rectangular" THEN ArrayTool_applyRectangular(s, 0, 0, {})
        ELSE IF ar.center = Null THEN s
        ELSE ArrayTool_applyPolar(s, 1, RDiv(ar.totalAngle, R(ar.count)),
                                  getSelectionBBox(ar.baseShapes), {})

ArrayTool_centred(s) == [s EXCEPT !.engine.preview = generatePolarPreview(s)]

ArrayTool_onMouseDown(s, world) ==
    IF s.tools.array.state = "pick_center"
      THEN ArrayTool_centred([s EXCEPT !.tools.array.center = applySnap(s, world),
                                       !.tools.array.state = "preview"])
    ELSE IF s.tools.array.state = "preview" THEN ArrayTool_apply(s)
    ELSE s

ArrayTool_aim(s, snapped, bbox) ==
    [s EXCEPT !.engine.preview =
        [list |-> (IF bbox # Null THEN <<Rubber(snapped, bbox, "#ffcc00")>> ELSE <<>>)
                  \o <<Marker(snapped, 5, s.engine.zoom, "#ffcc00")>>]]

ArrayTool_onMouseMove(s, world) ==
    IF s.tools.array.state = "pick_center"
    THEN ArrayTool_aim(s, applySnap(s, world), getSelectionBBox(s.tools.array.baseShapes))
    ELSE s

ArrayTool_onKeyDown(s, key, ans) ==
    LET ar == s.tools.array
    IN  IF key = "Escape" THEN setToolSelect([s EXCEPT !.engine.preview = Null])
        ELSE IF ar.state # "preview" THEN s
        ELSE IF key = "Enter" THEN ArrayTool_apply(s)
        ELSE IF key = "n" /\ ar.mode = "rectangular" THEN ArrayTool_configureRectangular(s, ans)
        ELSE IF key = "n" THEN ArrayTool_configurePolar(s, ans)
        ELSE IF key = "r" /\ ar.mode = "polar"
          THEN ArrayTool_configureRectangular([s EXCEPT !.tools.array.mode = "rectangular"], ans)
        ELSE IF key = "p" /\ ar.mode = "rectangular"
          THEN ArrayTool_configurePolar([s EXCEPT !.tools.array.mode = "polar"], ans)
        ELSE s

ArrayTool_handles(s, key) ==
    LET ar == s.tools.array
    IN  \/ key = "Escape"
        \/ /\ ar.state = "preview"
           /\ \/ key \in {"Enter", "n"}
              \/ key = "r" /\ ar.mode = "polar"
              \/ key = "p" /\ ar.mode = "rectangular"

(***************************************************************************)
(* FilletTool                                                              *)
(***************************************************************************)
FilletTool_activate(s, ans) ==
    LET s0 == [s EXCEPT !.tools.fillet.firstShape = Null, !.tools.fillet.firstClickPt = Null]
    IN  IF ans.radius = Null THEN setToolSelect(s0)
        ELSE [s0 EXCEPT !.tools.fillet.radius = RMax(R(0), ans.radius)]

(* the preview against the line under the cursor *)
FilletOver(s, first, second) ==
    IF second.id # first.id /\ second.type = "line"
    THEN showPreview(s.engine, s.tools.fillet.radius, first, second)
    ELSE Null

FilletTool_onMouseMove(s, world) ==
    Bind(hitTest(s.engine, world), LAMBDA hit :
        IF s.tools.fillet.firstShape # Null /\ hit # {}
        THEN [s EXCEPT !.engine.hoveredId = hit,
                       !.engine.preview = FilletOver(s, s.tools.fillet.firstShape,
                                               ShapeById(s.engine, CHOOSE i \in hit : TRUE))]
        ELSE [s EXCEPT !.engine.hoveredId = hit, !.engine.preview = Null])

FilletPick(s, world, first, shape) ==
    IF shape.type # "line" THEN s
    ELSE IF first = Null
      THEN [s EXCEPT !.tools.fillet.firstShape = shape,
                     !.tools.fillet.firstClickPt = world, !.engine.selectedIds = {shape.id}]
    ELSE IF shape.id = first.id THEN s
    ELSE [s EXCEPT !.calls = Append(@, [kind |-> "fillet", id1 |-> first.id,
                                        id2 |-> shape.id,
                                        radius |-> s.tools.fillet.radius, pt |-> world,
                                        made |-> {}])]

(* FilletTool.onMouseDown up to its await *)
FilletTool_onMouseDown(s, world) ==
    Bind(hitTest(s.engine, world), LAMBDA hit :
        IF hit = {} THEN s
        ELSE FilletPick(s, world, s.tools.fillet.firstShape,
                        ShapeById(s.engine, CHOOSE i \in hit : TRUE)))

FilletTool_onKeyDown(s, key, ans) ==
    IF key = "Escape"
      THEN setToolSelect([s EXCEPT !.engine.preview = Null, !.engine.hoveredId = {},
                                   !.tools.fillet.firstShape = Null, !.engine.selectedIds = {}])
    ELSE IF key = "r" /\ ans.radius # Null
      THEN [s EXCEPT !.tools.fillet.radius = RMax(R(0), ans.radius)]
    ELSE s

FilletTool_handles(s, key) == key \in {"Escape", "r"}

(***************************************************************************)
(* The shape-mutation collaborator (engine.api).  Each request is answered *)
(* later with one of three outcomes: "ok" (applied, success response),     *)
(* "fail" (nothing applied, failure response), "reject" (the promise       *)
(* rejects).                                                               *)
(***************************************************************************)
Outcomes == {"ok", "fail", "reject"}

ApiAdd(api, shape) ==
    [shapes |-> Append(api.shapes, [shape EXCEPT !.id = api.nextId]), nextId |-> api.nextId + 1]

ApiSources(api, ids) == SelectSeq(api.shapes, LAMBDA sh : sh.id \in ids)

(* the ids copy_shapes answers with *)
ApiNewIds(api, ids) == {api.nextId + k - 1 : k \in 1..Len(ApiSources(api, ids))}

ApiCopy(api, ids, dx, dy) ==
    Bind(ApiSources(api, ids), LAMBDA src :
        [shapes |-> api.shapes \o
                    [k \in 1..Len(src) |->
                        [getTranslatedShape(src[k], dx, dy) EXCEPT !.id = api.nextId + k - 1]],
         nextId |-> api.nextId + Len(src)])

ApiMap(api, ids, F(_)) ==
    [api EXCEPT !.shapes = [i \in DOMAIN api.shapes |->
                               IF api.shapes[i].id \in ids THEN F(api.shapes[i]) ELSE api.shapes[i]]]

ApiScale(api, ids, base, f) == ApiMap(api, ids, LAMBDA sh : getScaledShape(sh, base, f))

ApiTranslate(api, ids, dx, dy) == ApiMap(api, ids, LAMBDA sh : getTranslatedShape(sh, dx, dy))

ApiRotate(api, ids, base, deg) == ApiMap(api, ids, LAMBDA sh : getRotatedShape(sh, base, deg))

HasLine(api, id) ==
    \E i \in DOMAIN api.shapes : api.shapes[i].id = id /\ api.shapes[i].type = "line"

FilletBuilt(s1, s2, g) ==
    IF g = Null THEN Null
    ELSE IF Len(g.list) # 4 THEN Null
    ELSE [arc |-> g.list[1], t1 |-> g.list[3].c, t2 |-> g.list[4].c,
          ix |-> lineLineInf(s1.a, s1.b, s2.a, s2.b)]

FilletBetween(radius, s1, s2) ==
    FilletBuilt(s1, s2, showPreview([preview |-> Null, zoom |-> R(1)], radius, s1, s2))

(* the construction fillet_shapes commits: the arc and the two tangent points *)
FilletPlan(api, id1, id2, radius) ==
    IF ~HasLine(api, id1) \/ ~HasLine(api, id2) THEN Null
    ELSE FilletBetween(radius, ShapeById(api, id1), ShapeById(api, id2))

FilletTrim(sh, tp, ix) ==
    IF RLe(DistSq(sh.a, ix), DistSq(sh.b, ix)) THEN [sh EXCEPT !.a = tp] ELSE [sh EXCEPT !.b = tp]

FilletTrimmed(api, id1, id2, plan) ==
    [i \in DOMAIN api.shapes |->
        IF api.shapes[i].id = id1 THEN FilletTrim(api.shapes[i], plan.t1, plan.ix)
        ELSE IF api.shapes[i].id = id2 THEN FilletTrim(api.shapes[i], plan.t2, plan.ix)
        ELSE api.shapes[i]]

FilletApply(api, id1, id2, plan) ==
    ApiAdd([api EXCEPT !.shapes = FilletTrimmed(api, id1, id2, plan)],
           NewShape("arc", plan.arc.c, <<plan.arc.startAngle, plan.arc.endAngle>>,
                    plan.arc.r, <<>>))

ApiFillet(api, id1, id2, radius) == FilletApply(api, id1, id2, FilletPlan(api, id1, id2, radius))

(***************************************************************************)
(* The code that runs when a request is answered                           *)
(***************************************************************************)
Drop(s, i) == [s EXCEPT !.calls = SubSeq(@, 1, i - 1) \o SubSeq(@, i + 1, Len(@))]

(* the tail of ScaleTool._finishScale *)
ScaleTool_finished(s) == setToolSelect([onProjectUpdated(s) EXCEPT !.engine.preview = Null])

(* the tail of TransformTool._finish *)
TransformTool_finished(s) == setToolSelect(TransformTool_reset(onProjectUpdated(s)))

Copied(s0, c) == [s0 EXCEPT !.api = ApiCopy(@, c.ids, c.dx, c.dy)]

ResolveScale(s0, c, o) ==
    IF o = "reject" THEN s0
    ELSE IF c.stage = "copy" /\ o = "fail" THEN ScaleTool_finished(s0)
    ELSE IF c.stage = "copy" THEN
        [Copied(s0, c) EXCEPT !.calls =
            IF s0.tools.scale.basePoint = Null THEN @
            ELSE Append(@,
                 [kind |-> "scale", stage |-> "scale", ids |-> ApiNewIds(s0.api, c.ids),
                  base |-> s0.tools.scale.basePoint, factor |-> c.factor,
                  made |-> c.made \cup ApiNewIds(s0.api, c.ids)])]
    ELSE IF o = "fail" THEN ScaleTool_finished(s0)
    ELSE ScaleTool_finished([s0 EXCEPT !.api = ApiScale(@, c.ids, c.base, c.factor)])

ResolveTransform(s0, c, o) ==
    IF o = "reject" THEN s0
    ELSE IF c.stage = "copy" /\ o = "fail" THEN s0
    ELSE IF c.stage = "copy" THEN
        [Copied(s0, c) EXCEPT !.calls =
            IF s0.tools.transform.mode # "move" /\ s0.tools.transform.basePoint = Null THEN @
            ELSE Append(@, TransformRequest(s0.tools.transform, ApiNewIds(s0.api, c.ids),
                                            c.made \cup ApiNewIds(s0.api, c.ids)))]
    ELSE IF o = "fail" THEN TransformTool_finished(s0)
    ELSE IF c.stage = "translate"
      THEN TransformTool_finished([s0 EXCEPT !.api = ApiTranslate(@, c.ids, c.dx, c.dy)])
    ELSE TransformTool_finished([s0 EXCEPT !.api = ApiRotate(@, c.ids, c.base, c.angle)])

ResolveRect(s0, c, o) ==
    IF o = "reject" THEN s0
    ELSE ArrayTool_applyRectangular(IF o = "fail" THEN s0 ELSE Copied(s0, c),
                                    c.cell[1], c.cell[2] + 1,
                                    IF o = "fail" THEN c.made
                                    ELSE c.made \cup ApiNewIds(s0.api, c.ids))

(* the state and the ids made so far with which the polar loop goes on *)
PolarAfter(s0, c, o) ==
    IF o = "fail" THEN <<s0, c.made>>
    ELSE IF c.stage = "orbit" THEN <<Copied(s0, c), c.made \cup ApiNewIds(s0.api, c.ids)>>
    ELSE <<[s0 EXCEPT !.api = ApiRotate(@, c.ids, c.center, c.angle)], c.made>>

ResolvePolar(s0, c, o) ==
    IF o = "reject" THEN s0
    ELSE IF o # "fail" /\ c.stage = "copy" THEN
        [Copied(s0, c) EXCEPT !.calls =
            IF s0.tools.array.center = Null THEN @
            ELSE Append(@,
                 [kind |-> "polar", stage |-> "rotate", i |-> c.i, step |-> c.step,
                  bbox |-> c.bbox, ids |-> ApiNewIds(s0.api, c.ids),
                  center |-> s0.tools.array.center,
                  angle |-> RMul(c.step, R(c.i)),
                  made |-> c.made \cup ApiNewIds(s0.api, c.ids)])]
    ELSE Bind(PolarAfter(s0, c, o), LAMBDA nx :
             ArrayTool_applyPolar(nx[1], c.i + 1, c.step, c.bbox, nx[2]))

(* the rest of FilletTool.onMouseDown after its await *)
ResolveFillet(s0, c, o) ==
    Bind(IF o = "ok" THEN FilletPlan(s0.api, c.id1, c.id2, c.radius) ELSE Null, LAMBDA plan :
        IF plan # Null
        THEN [onProjectUpdated([s0 EXCEPT !.api = FilletApply(@, c.id1, c.id2, plan)])
                EXCEPT !.engine.preview = Null, !.tools.fillet.firstShape = Null,
                       !.tools.fillet.firstClickPt = Null, !.engine.selectedIds = {}]
        ELSE s0)

(* the project data the answer to get_project_data request c carries: the  *)
(* data the collaborator read when it served the request, which is the     *)
(* moment of the answer unless the answer was held back                    *)
ProjectData(s0, c) == IF "data" \in DOMAIN c THEN c.data ELSE s0.api.shapes

(* the collaborator serves get_project_data request number i and holds     *)
(* the answer back                                                         *)
Serve(s, i) ==
    [s EXCEPT !.calls[i] = [kind |-> "get_project_data", data |-> s.api.shapes]]

(* the continuation of request number i answered with outcome o *)
Resolve(s, i, o) ==
    LET c == s.calls[i]
        s0 == Drop(s, i)
    IN  IF c.kind = "add_shape" THEN
            IF o = "reject" THEN s0
            ELSE IF o = "fail" THEN onProjectUpdated(s0)
            ELSE onProjectUpdated([s0 EXCEPT !.api = ApiAdd(@, c.shape)])
        ELSE IF c.kind = "get_project_data" THEN
            IF o = "ok" THEN [s0 EXCEPT !.engine.shapes = ProjectData(s0, c)] ELSE s0
        ELSE IF c.kind = "copy" THEN
            IF o = "reject" THEN s0
            ELSE IF o = "fail" THEN setToolSelect(onProjectUpdated(s0))
            ELSE setToolSelect(onProjectUpdated([s0 EXCEPT !.api = ApiCopy(@, c.ids, c.dx, c.dy)]))
        ELSE IF c.kind = "scale" THEN ResolveScale(s0, c, o)
        ELSE IF c.kind = "transform" THEN ResolveTransform(s0, c, o)
        ELSE IF c.kind = "rect" THEN ResolveRect(s0, c, o)
        ELSE IF c.kind = "polar" THEN ResolvePolar(s0, c, o)
        ELSE ResolveFillet(s0, c, o)

(***************************************************************************)
(* ToolManager: setTool and the dispatch to the current tool               *)
(***************************************************************************)
(* currentTool.activate() *)
Activate(s, name, ans) ==
    IF name = "line" THEN LineTool_activate(s)
    ELSE IF name = "circle" THEN CircleTool_activate(s)
    ELSE IF name = "polyline" THEN PolylineTool_activate(s)
    ELSE IF name = "arc" THEN ArcTool_activate(s)
    ELSE IF name = "ellipse" THEN EllipseTool_activate(s)
    ELSE IF name = "dimension" THEN DimensionTool_activate(s)
    ELSE IF name = "copy" THEN CopyTool_activate(s)
    ELSE IF name = "scale" THEN ScaleTool_activate(s)
    ELSE IF name = "transform" THEN TransformTool_activate(s)
    ELSE IF name = "array" THEN ArrayTool_activate(s, ans)
    ELSE IF name = "fillet" THEN FilletTool_activate(s, ans)
    ELSE s

(* the names of ToolManager.tools: the tools of ToolNames and those whose   *)
(* commands are not followed here                                          *)
KnownTools ==
    ToolNames \cup {"text", "measure", "trim", "offset", "createBlock", "insertBlock", "erase"}

(* ToolManager.setTool *)
setTool(s, name, ans) ==
    LET s1 == [deactivate(s) EXCEPT
                  !.manager.currentTool = IF name \in KnownTools THEN name ELSE "select"]
    IN  [Activate(s1, name, ans) EXCEPT !.manager.toolChanged = name]

(* ToolManager.onMouseDown *)
ToolOnMouseDown(s, world, ctrl) ==
    LET cur == s.manager.currentTool
    IN  IF cur = "select" THEN SelectTool_onMouseDown(s, world, ctrl)
        ELSE IF cur = "line" THEN LineTool_onMouseDown(s, world)
        ELSE IF cur = "rectangle" THEN RectangleTool_onMouseDown(s, world)
        ELSE IF cur = "circle" THEN CircleTool_onMouseDown(s, world)
        ELSE IF cur = "polyline" THEN PolylineTool_onMouseDown(s, world)
        ELSE IF cur = "arc" THEN ArcTool_onMouseDown(s, world)
        ELSE IF cur = "ellipse" THEN EllipseTool_onMouseDown(s, world)
        ELSE IF cur = "dimension" THEN DimensionTool_onMouseDown(s, world)
        ELSE IF cur = "copy" THEN CopyTool_onMouseDown(s, world)
        ELSE IF cur = "scale" THEN ScaleTool_onMouseDown(s, world)
        ELSE IF cur = "transform" THEN TransformTool_onMouseDown(s, world)
        ELSE IF cur = "array" THEN ArrayTool_onMouseDown(s, world)
        ELSE FilletTool_onMouseDown(s, world)

(* ToolManager.onMouseMove *)
ToolOnMouseMove(s, world) ==
    LET cur == s.manager.currentTool
    IN  IF cur = "select" THEN SelectTool_onMouseMove(s, world)
        ELSE IF cur = "line" THEN LineTool_onMouseMove(s, world)
        ELSE IF cur = "rectangle" THEN RectangleTool_onMouseMove(s, world)
        ELSE IF cur = "circle" THEN CircleTool_onMouseMove(s, world)
        ELSE IF cur = "polyline" THEN PolylineTool_onMouseMove(s, world)
        ELSE IF cur = "arc" THEN ArcTool_onMouseMove(s, world)
        ELSE IF cur = "ellipse" THEN EllipseTool_onMouseMove(s, world)
        ELSE IF cur = "dimension" THEN DimensionTool_onMouseMove(s, world)
        ELSE IF cur = "copy" THEN CopyTool_onMouseMove(s, world)
        ELSE IF cur = "scale" THEN ScaleTool_onMouseMove(s, world)
        ELSE IF cur = "transform" THEN TransformTool_onMouseMove(s, world)
        ELSE IF cur = "array" THEN ArrayTool_onMouseMove(s, world)
        ELSE FilletTool_onMouseMove(s, world)

(* ToolManager.onMouseUp: only SelectTool overrides BaseTool.onMouseUp *)
ToolOnMouseUp(s) ==
    IF s.manager.currentTool = "select" THEN SelectTool_onMouseUp(s) ELSE s

(* ToolManager.onDoubleClick: only PolylineTool overrides it *)
ToolOnDoubleClick(s) ==
    IF s.manager.currentTool = "polyline" THEN PolylineTool_finish(s) ELSE s

(* ToolManager.onKeyDown: the state afterwards *)
ToolOnKeyDown(s, key, ans) ==
    LET cur == s.manager.currentTool
    IN  IF cur = "select" THEN SelectTool_onKeyDown(s, key)
        ELSE IF cur = "line" THEN LineTool_onKeyDown(s, key)
        ELSE IF cur = "rectangle" THEN RectangleTool_onKeyDown(s, key)
        ELSE IF cur = "circle" THEN CircleTool_onKeyDown(s, key)
        ELSE IF cur = "polyline" THEN PolylineTool_onKeyDown(s, key)
        ELSE IF cur = "arc" THEN ArcTool_onKeyDown(s, key)
        ELSE IF cur = "ellipse" THEN EllipseTool_onKeyDown(s, key)
        ELSE IF cur = "dimension" THEN DimensionTool_onKeyDown(s, key)
        ELSE IF cur = "copy" THEN CopyTool_onKeyDown(s, key)
        ELSE IF cur = "scale" THEN ScaleTool_onKeyDown(s, key, ans)
        ELSE IF cur = "transform" THEN TransformTool_onKeyDown(s, key)
        ELSE IF cur = "array" THEN ArrayTool_onKeyDown(s, key, ans)
        ELSE FilletTool_onKeyDown(s, key, ans)

(* ToolManager.onKeyDown: its return value is truthy *)
KeyHandled(s, key) ==
    LET cur == s.manager.currentTool
    IN  \/ cur = "scale" /\ ScaleTool_handles(s, key)
        \/ cur = "transform" /\ TransformTool_handles(s, key)
        \/ cur = "array" /\ ArrayTool_handles(s, key)
        \/ cur = "fillet" /\ FilletTool_handles(s, key)

(***************************************************************************)
(* CanvasEngine event handlers and the keydown listener of IndCADApp       *)
(***************************************************************************)
(* the rest of _onMouseMove once the snap point is known *)
MoveSnapped(s, pos, world, snap) ==
    ToolOnMouseMove([s EXCEPT !.engine.lastMouse = pos, !.engine.snapPoint = snap],
                    IF snap # NoSnap THEN snap.point ELSE world)

(* CanvasEngine._onMouseMove; the canvas lies at the origin of the page, so  *)
(* that clientX, clientY are the canvas position                            *)
engine_onMouseMove(s, pos) ==
    IF s.engine.isPanning
    THEN [s EXCEPT !.engine.lastMouse = pos, !.engine.pan = Sub2(pos, s.engine.panStart)]
    ELSE Bind(screenToWorld(s.engine, pos), LAMBDA world :
             MoveSnapped(s, pos, world,
                         findSnapPoint(s.engine, world, SnapTolerance, s.engine.snapSettings)))

(* CanvasEngine._onMouseDown, middle button *)
engine_onMiddleDown(s, pos) ==
    [s EXCEPT !.engine.isPanning = TRUE, !.engine.panStart = Sub2(pos, s.engine.pan)]

(* CanvasEngine._onMouseDown, left button, space not held *)
engine_onMouseDown(s, pos, ctrl) == ToolOnMouseDown(s, screenToWorld(s.engine, pos), ctrl)

(* CanvasEngine._onMouseUp, left button unless panning *)
engine_onMouseUp(s) ==
    IF s.engine.isPanning THEN [s EXCEPT !.engine.isPanning = FALSE] ELSE ToolOnMouseUp(s)

(* a tool change the user asks for, by toolbar button or shortcut *)
UserSetTool(s, name, ans) == [setTool(s, name, ans) EXCEPT !.switches = @ + 1]

Shortcut == [r |-> "rectangle", c |-> "circle", p |-> "polyline"]

(* the keydown listener of IndCADApp._connectKeyboard for a key without     *)
(* modifier: the tool first; if it did not handle the key, the shortcut     *)
(* switch, whose default branch hands the key to the tool once more         *)
app_onKeyDown(s, key, ans) ==
    Bind(ToolOnKeyDown(s, key, ans), LAMBDA s1 :
        IF KeyHandled(s, key) THEN s1
        ELSE IF key \in DOMAIN Shortcut THEN UserSetTool(s1, Shortcut[key], ans)
        ELSE ToolOnKeyDown(s1, key, ans))

(* IndCADApp._handleAction('toggleSnap') *)
toggleSnap(s) == [s EXCEPT !.manager.snapEnabled = ~@]

(* the change listener of a snap checkbox in UIController._initSnapMenu *)
setSnapSetting(s, type, checked) ==
    [s EXCEPT !.engine.snapSettings[type] = checked,
              !.manager.gridSnap = IF type = "grid" THEN checked ELSE @]

(***************************************************************************)
(* The editor as a state machine.  ev records the event handled last: its  *)
(* kind and its argument (the key, the tool name, the outcome).            *)
(***************************************************************************)
VARIABLES engine, manager, tools, calls, api, switches, ev

vars == <<engine, manager, tools, calls, api, switches, ev>>

MaxSwitches == 1
MaxPending == 1
MaxCreated == 1
MaxPoints == 2
MaxRows == 2
MaxCols == 2
MaxCount == 2

Cur ==
    [engine |-> engine, manager |-> manager, tools |-> tools, calls |-> calls, api |-> api,
     switches |-> switches]

Ev(op, arg) == [op |-> op, arg |-> arg]

(* lim bounds a session: the ids the collaborator may hand out and the     *)
(* tool changes the user may ask for                                       *)
Lim(ids, changes) == [ids |-> ids, switches |-> changes]

InBounds(s, lim) ==
    /\ s.switches <= lim.switches
    /\ Len(s.calls) <= (IF "pending" \in DOMAIN lim THEN lim.pending ELSE MaxPending)
    /\ s.api.nextId <= lim.ids + 1
    /\ Len(s.tools.polyline.points) <= MaxPoints

Assign(s, e, lim) ==
    /\ InBounds(s, lim)
    /\ engine' = s.engine
    /\ manager' = s.manager
    /\ tools' = s.tools
    /\ calls' = s.calls
    /\ api' = s.api
    /\ switches' = s.switches
    /\ ev' = e

InitFrom(s) ==
    /\ engine = s.engine
    /\ manager = s.manager
    /\ tools = s.tools
    /\ calls = s.calls
    /\ api = s.api
    /\ switches = s.switches
    /\ ev = [op |-> "init", arg |-> ""]

InitWith(shapes, locked) == InitFrom(NewSys(shapes, locked))

(* the editor after the user has moved the pointer to pos and clicked there *)
Clicked(s, pos) ==
    engine_onMouseUp(engine_onMouseDown(engine_onMouseMove(s, pos), pos, FALSE))

(* what the user types into the prompts *)
NoAns ==
    [mode |-> "", rows |-> Cancelled, cols |-> Cancelled, rowSpacing |-> Null, colSpacing |-> Null,
     count |-> Cancelled, angle |-> Null, rotate |-> "Y", radius |-> Null, factor |-> Null]

RectAnswers ==
    {[NoAns EXCEPT !.mode = "R", !.rows = r, !.cols = c, !.rowSpacing = R(50), !.colSpacing = R(50)] :
        r \in 1..MaxRows, c \in 1..MaxCols}
    \cup {[NoAns EXCEPT !.mode = "R"]}

PolarAnswers ==
    {[NoAns EXCEPT !.mode = "P", !.count = n, !.angle = R(360), !.rotate = y] :
        n \in 2..MaxCount, y \in {"Y", "N"}}
    \cup {[NoAns EXCEPT !.mode = "P"]}

RadiusAnswers == {[NoAns EXCEPT !.radius = r] : r \in {Null, R(0), R(2)}}

FactorAnswers == {[NoAns EXCEPT !.factor = f] : f \in {Null, R(2)}}

(* the prompts a tool change to name opens *)
ToolAnswers(name) ==
    IF name = "array" /\ engine.selectedIds # {} THEN RectAnswers \cup PolarAnswers \cup {NoAns}
    ELSE IF name = "fillet" THEN RadiusAnswers
    ELSE {NoAns}

(* the prompts key opens in the current tool *)
KeyAnswers(key) ==
    LET cur == manager.currentTool
        ar == tools.array
    IN  IF cur = "scale" /\ key = "Enter" /\ tools.scale.state = "pick_factor" THEN FactorAnswers
        ELSE IF cur = "fillet" /\ key = "r" THEN RadiusAnswers
        ELSE IF cur = "array" /\ ar.state = "preview" /\
                ((key = "n" /\ ar.mode = "rectangular") \/ (key = "r" /\ ar.mode = "polar"))
          THEN RectAnswers
        ELSE IF cur = "array" /\ ar.state = "preview" /\
                ((key = "n" /\ ar.mode = "polar") \/ (key = "p" /\ ar.mode = "rectangular"))
          THEN PolarAnswers
        ELSE IF key \in DOMAIN Shortcut /\ ~KeyHandled(Cur, key) THEN ToolAnswers(Shortcut[key])
        ELSE {NoAns}

Keys == {"Escape", "Enter", "r", "c"}

(***************************************************************************)
(* Events of a session bounded by lim.                                     *)
(***************************************************************************)
MouseMoveAt(cursors, lim) ==
    \E pos \in cursors : Assign(engine_onMouseMove(Cur, pos), Ev("move", ""), lim)

(* the button goes down where the pointer was last seen *)
MouseDownAt(lim) ==
    \E ctrl \in (IF manager.currentTool = "select" THEN BOOLEAN ELSE {FALSE}) :
        Assign(engine_onMouseDown(Cur, engine.lastMouse, ctrl), Ev("down", ""), lim)

MouseUpAt(lim) ==
    /\ manager.currentTool = "select"
    /\ tools.select.isDragging
    /\ Assign(engine_onMouseUp(Cur), Ev("up", ""), lim)

DoubleClickAt(lim) ==
    /\ manager.currentTool = "polyline"
    /\ Assign(ToolOnDoubleClick(Cur), Ev("dblclick", ""), lim)

KeyDownOf(keys, lim) ==
    \E key \in keys : \E ans \in KeyAnswers(key) :
        Assign(app_onKeyDown(Cur, key, ans), Ev("key", key), lim)

ToolButtonOf(names, lim) ==
    \E name \in names : \E ans \in ToolAnswers(name) :
        Assign(UserSetTool(Cur, name, ans), Ev("tool", name), lim)

Respond(lim) ==
    \E i \in DOMAIN calls : \E o \in Outcomes :
        Assign(Resolve(Cur, i, o), Ev("resolve", o), lim)

ToggleSnapAt(lim) == Assign(toggleSnap(Cur), Ev("togglesnap", ""), lim)

SnapSettingOf(kinds, lim) ==
    \E type \in kinds : \E checked \in BOOLEAN :
        /\ engine.snapSettings[type] # checked
        /\ Assign(setSnapSetting(Cur, type, checked), Ev("snapsetting", type), lim)

(***************************************************************************)
(* The command session: two lines meeting at the origin and every tool.    *)
(* It opens with the first line selected by a click; the user changes     *)
(* tool MaxSwitches times and presses the button                           *)
(* only inside a command (picking with the select tool is the subject of   *)
(* the box-selection session below).                                       *)
(***************************************************************************)
MainScene == <<Line(1, 0, 0, 10, 0), Line(2, 0, 0, 0, 10)>>

MainCursors == {P(5, 0), P(0, 0)}

Init == \E s \in {Clicked(NewSys(MainScene, {}), P(5, 0))} : InitFrom(s)

MainLim == Lim(Len(MainScene) + MaxCreated, MaxSwitches)

Idle == calls = <<>>
InCommand == Idle /\ manager.currentTool # "select"

MouseMove == MouseMoveAt(MainCursors, MainLim)
MouseDown == InCommand /\ MouseDownAt(MainLim)
DoubleClick == InCommand /\ DoubleClickAt(MainLim)
KeyDown == InCommand /\ KeyDownOf(Keys, MainLim)
ToolButton == Idle /\ ToolButtonOf(ToolNames, MainLim)
Answer == Respond(MainLim)

Next == MouseMove \/ MouseDown \/ DoubleClick \/ KeyDown \/ ToolButton \/ Answer

Spec == Init /\ [][Next]_vars

(***************************************************************************)
(* Properties of the command session                                       *)
(***************************************************************************)
MultiStepTools == ToolNames \ {"select"}

EditKinds == {"scale", "transform", "rect", "polar", "fillet"}

ShapeIds(shapes) == {shapes[i].id : i \in DOMAIN shapes}

(* the primary state tag of every command: the explicit tag where the tool *)
(* has one, otherwise how many picks it holds                              *)
StateTags(t) ==
    <<t.scale.state, t.transform.state, t.array.state, t.line.p1 = Null, t.rectangle.p1 = Null,
      t.circle.center = Null, Len(t.polyline.points), t.arc.center = Null, t.arc.startPoint = Null,
      t.ellipse.center = Null, t.ellipse.rx, t.dimension.p1 = Null, t.dimension.p2 = Null,
      t.copy.basePoint = Null, t.fillet.firstShape = Null>>

(* state tag, anchor points and sub-mode flags of the four editing commands *)
EditState(t) ==
    <<t.scale.state, t.scale.basePoint, t.scale.refPoint1, t.scale.refPoint2, t.scale.mode,
      t.scale.isCopy, t.transform.state, t.transform.basePoint, t.transform.mode,
      t.transform.isCopy, t.array.state, t.array.mode, t.array.center, t.fillet.firstShape,
      t.fillet.firstClickPt>>

(* the answer just handled was a failure of the only request of an editing *)
(* command in flight                                                       *)
EditFailure ==
    /\ ev'.op = "resolve" /\ ev'.arg # "ok"
    /\ Len(calls) = 1 /\ calls[1].kind \in EditKinds

(* C1: Escape in any state of a multi-step tool clears engine.preview and  *)
(* makes select the active tool.                                           *)
C1_EscapeReturnsToSelect ==
    [][(ev'.op = "key" /\ ev'.arg = "Escape" /\ manager.currentTool \in MultiStepTools)
         => (engine'.preview = Null /\ manager'.currentTool = "select")]_vars

(* C2: when a collaborator call of a Scale, Transform, Array or Fillet     *)
(* finalization fails, the tool stays active and its state tag, anchor     *)
(* points and sub-mode flags are unchanged.                                *)
C2_FailureKeepsCommand ==
    [][EditFailure => (manager'.currentTool = manager.currentTool
                       /\ EditState(tools') = EditState(tools))]_vars

(* C3: when a collaborator call of a finalization fails, none of the       *)
(* shapes that finalization created is left in the project.                *)
C3_FailureLeavesNothing ==
    [][EditFailure => (calls[1].made \cap ShapeIds(api'.shapes) = {})]_vars

(* C4: a pointer move never issues a request to the collaborator, never    *)
(* emits a shape and never changes a command's primary state tag.          *)
C4_MoveOnlyPreviews ==
    [][ev'.op = "move" => (calls' = calls /\ api' = api
                           /\ manager'.currentTool = manager.currentTool
                           /\ StateTags(tools') = StateTags(tools))]_vars

C4_Witness ==
    /\ ev.op = "move" /\ manager.currentTool = "scale"
    /\ tools.scale.state = "pick_factor" /\ engine.preview # Null

(* C10: filleting the lines (0,0)-(10,0) and (0,0)-(0,10) with radius 2    *)
(* gives an arc centred at (2,2) with tangent points (2,0) and (0,2).      *)
C10_FilletExample ==
    (/\ ev.op = "move" /\ manager.currentTool = "fillet" /\ tools.fillet.radius = R(2)
     /\ tools.fillet.firstShape # Null /\ engine.preview # Null
     /\ engine.shapes = MainScene)
    => /\ Len(engine.preview.list) = 4
       /\ engine.preview.list[1].c = P(2, 2)
       /\ engine.preview.list[1].r = R(2)
       /\ {engine.preview.list[3].c, engine.preview.list[4].c} = {P(2, 0), P(0, 2)}

C10_Witness ==
    /\ ev.op = "move" /\ manager.currentTool = "fillet" /\ tools.fillet.radius = R(2)
    /\ tools.fillet.firstShape # Null /\ engine.preview # Null /\ engine.shapes = MainScene

(* the picks the creating command of a shape of this type holds for it *)
PicksHeld(t, type) ==
    IF type = "line" THEN t.line.p1 # Null
    ELSE IF type = "rectangle" THEN t.rectangle.p1 # Null
    ELSE IF type = "circle" THEN t.circle.center # Null
    ELSE IF type = "arc" THEN t.arc.center # Null /\ t.arc.startPoint # Null
    ELSE IF type = "ellipse" THEN t.ellipse.center # Null /\ t.ellipse.rx # R(0)
    ELSE IF type = "dimension" THEN t.dimension.p1 # Null /\ t.dimension.p2 # Null
    ELSE t.polyline.points # <<>>

(* C18: a shape-creating tool keeps its picked points while its add-shape  *)
(* request is in flight and still holds them when that request has failed. *)
C18_PicksKeptUntilAnswered ==
    \A i \in DOMAIN calls :
        calls[i].kind = "add_shape" => PicksHeld(tools, calls[i].shape.type)

(* C19: a sub-mode key of Scale or Transform (C, R) leaves the primary     *)
(* state tag unchanged and recomputes engine.preview from the last cursor  *)
(* position.                                                               *)
C19_SubModeKeyKeepsState ==
    [][(/\ ev'.op = "key" /\ ev'.arg \in {"c", "r"}
        /\ manager.currentTool \in {"scale", "transform"}
        /\ KeyHandled(Cur, ev'.arg))
         => (/\ StateTags(tools') = StateTags(tools)
             /\ engine'.preview =
                  ToolOnMouseMove([Cur EXCEPT !.tools = tools'],
                                  screenToWorld(engine, engine.lastMouse)).engine.preview)]_vars

(***************************************************************************)
(* The re-activation session: the drawing of the command session, the line *)
(* and scale tools, and ReSwitches tool changes, so that a tool is entered *)
(* a second time with the state its first use left behind.  The            *)
(* collaborator hands out no new id here: a request that would create a    *)
(* shape is answered with a failure or a rejection.                        *)
(***************************************************************************)
ReSwitches == 2

ReTools == {"line", "scale"}

ReLim == Lim(Len(MainScene), ReSwitches)

ReMove == MouseMoveAt(MainCursors, ReLim)
ReDown == InCommand /\ MouseDownAt(ReLim)
ReKey == InCommand /\ KeyDownOf({"Escape", "Enter", "r", "c"} \ DOMAIN Shortcut, ReLim)
ReKeyMode ==
    InCommand /\ manager.currentTool = "scale" /\ KeyDownOf({"r", "c"}, ReLim)
ReTool == Idle /\ ToolButtonOf(ReTools, ReLim)
ReAnswer == Respond(ReLim)

NextRe == ReMove \/ ReDown \/ ReKey \/ ReKeyMode \/ ReTool \/ ReAnswer

SpecRe == Init /\ [][NextRe]_vars

(* the command state a tool is constructed with *)
InitialCommandState(t, name) ==
    IF name = "line" THEN t.line.p1 = Null
    ELSE IF name = "rectangle" THEN t.rectangle.p1 = Null
    ELSE IF name = "circle" THEN t.circle.center = Null
    ELSE IF name = "polyline" THEN t.polyline.points = <<>>
    ELSE IF name = "arc" THEN t.arc.center = Null /\ t.arc.startPoint = Null
    ELSE IF name = "ellipse" THEN t.ellipse.center = Null /\ t.ellipse.rx = R(0)
    ELSE IF name = "dimension" THEN t.dimension.p1 = Null /\ t.dimension.p2 = Null
    ELSE IF name = "copy" THEN t.copy.basePoint = Null
    ELSE IF name = "scale"
      THEN /\ t.scale.state = "pick_base" /\ t.scale.basePoint = Null
           /\ t.scale.mode = "normal" /\ t.scale.isCopy = FALSE
    ELSE IF name = "transform"
      THEN /\ t.transform.state = "pick_base" /\ t.transform.basePoint = Null
           /\ t.transform.mode = "move" /\ t.transform.isCopy = FALSE
    ELSE IF name = "fillet" THEN t.fillet.firstShape = Null
    ELSE TRUE

(* C5: whenever a tool is activated or re-activated through setTool, its   *)
(* command state equals its initial values.                                *)
C5_ActivationResets ==
    (ev.op = "tool" /\ manager.currentTool = ev.arg) => InitialCommandState(tools, ev.arg)

ScaleChain ==
    {<<"pick_base", "pick_factor">>, <<"pick_factor", "ref_1">>, <<"ref_1", "ref_2">>,
     <<"ref_2", "ref_new">>}

(* the event just handled issued the first request of a Scale commit *)
ScaleCommit ==
    /\ ev'.op \in {"down", "key"}
    /\ Len(calls') = Len(calls) + 1
    /\ calls'[Len(calls')].kind = "scale"

(* C20: the Scale state tag moves only along pick_base -> pick_factor ->   *)
(* ref_1 -> ref_2 -> ref_new and returns to pick_base only by the reset of *)
(* an activation; a commit is requested only from pick_factor or ref_new,  *)
(* and from ref_new only with a reference distance greater than 0.         *)
C20_ScaleStateChain ==
    [][/\ tools'.scale.state # tools.scale.state
          => \/ <<tools.scale.state, tools'.scale.state>> \in ScaleChain
             \/ /\ tools'.scale.state = "pick_base"
                /\ ev'.op = "tool" /\ ev'.arg = "scale"
       /\ ScaleCommit
          => /\ tools.scale.state \in {"pick_factor", "ref_new"}
             /\ tools.scale.state = "ref_new"
                  => RLt(R(0), DistSq(tools.scale.refPoint1, tools.scale.refPoint2))]_vars

C20_Witness ==
    /\ tools.scale.state = "ref_new" /\ ev.op = "down"
    /\ calls # <<>> /\ calls[Len(calls)].kind = "scale"

(***************************************************************************)
(* The snapping session: two lines from the origin and a circle around it, *)
(* seen at one of SnapZooms.  The user moves the pointer, switches object snaps    *)
(* and the snap toggle, takes the line tool and picks its first point at   *)
(* the end of the first line, which becomes the anchor of the              *)
(* perpendicular and tangent snaps.                                        *)
(***************************************************************************)
SnapScene == <<Line(1, 0, 0, 10, 0), Line(2, 0, 0, 0, 10), Circle(3, 0, 0, 6)>>

SnapZooms == {R(1), R(2)}

SnapCursors == {P(3, 4), P(10, 0), P(9, 12), P(30, 40)}

(* where the user picks the first point of a line *)
SnapAnchorAt == P(10, 0)

SnapToggles == {"endpoint", "midpoint"}

SnapLim == Lim(Len(SnapScene), MaxSwitches)

InitSnap == \E z \in SnapZooms : InitFrom([NewSys(SnapScene, {}) EXCEPT !.engine.zoom = z])

SnapMove == MouseMoveAt(SnapCursors, SnapLim)
SnapPick ==
    /\ manager.currentTool = "line" /\ tools.line.p1 = Null /\ engine.lastMouse = SnapAnchorAt
    /\ MouseDownAt(SnapLim)
SnapTool == ToolButtonOf({"line"}, SnapLim)
SnapSetting == SnapSettingOf(SnapToggles, SnapLim)
SnapToggle == ToggleSnapAt(SnapLim)

NextSnap == SnapMove \/ SnapPick \/ SnapTool \/ SnapSetting \/ SnapToggle

SpecSnap == InitSnap /\ [][NextSnap]_vars

(* the world position of the pointer *)
CursorWorld == screenToWorld(engine, engine.lastMouse)

(* the square of pixelTolerance / zoom *)
SnapTolSq == RSq(RDiv(R(SnapTolerance), engine.zoom))

gridRound(v, gs) == RMul(R(RRound(RDiv(v, gs))), gs)

OnGrid(p) == p = <<gridRound(p[1], engine.gridSize), gridRound(p[2], engine.gridSize)>>

SeqRange(seq) == {seq[i] : i \in DOMAIN seq}

(* the endpoints of visible shapes *)
Endpoints ==
    {c.point : c \in {d \in SeqRange(StaticCands(engine.shapes, [k \in SnapKinds |-> TRUE])) :
                         d.type = "endpoint"}}

(* the endpoints on a grid point within snap tolerance of the pointer *)
EndpointsNear ==
    {p \in Endpoints : OnGrid(p) /\ RLt(DistSq(CursorWorld, p), SnapTolSq)}

(* C6: findSnapPoint returns null or one snap point, and a returned point  *)
(* lies strictly closer to the cursor than pixelTolerance / zoom.          *)
C6_SnapWithinTolerance ==
    ev.op = "move" =>
        \/ engine.snapPoint = NoSnap
        \/ /\ engine.snapPoint.type \in SnapKinds
           /\ RLt(DistSq(CursorWorld, engine.snapPoint.point), SnapTolSq)

C6_Witness ==
    /\ ev.op = "move" /\ engine.snapPoint # NoSnap /\ engine.snapPoint.type = "nearest"
    /\ engine.snapPoint.point # CursorWorld

SnapCase ==
    /\ ev.op = "move" /\ EndpointsNear # {}
    /\ isEnabled(engine.snapSettings, "endpoint") /\ isEnabled(engine.snapSettings, "grid")

Delivered == IF engine.snapPoint # NoSnap THEN engine.snapPoint.point ELSE CursorWorld

(* the indexes of the shapes that pass their test at the delivered position *)
Passing ==
    {i \in DOMAIN engine.shapes :
        HitTestShape(engine.shapes[i], Delivered, RDiv(R(HitTolerance), engine.zoom))}

Hovering == ev.op = "move" /\ manager.currentTool = "select" /\ ~tools.select.isDragging

(* C14: hitTest returns the shape of highest index among those that pass   *)
(* their per-kind test with tolerance pixelTolerance / zoom, and null when *)
(* no shape passes.                                                        *)
C14_LastDrawnWins ==
    Hovering =>
        /\ Passing = {} => engine.hoveredId = {}
        /\ \A i \in Passing :
              (\A j \in Passing : j <= i) => engine.hoveredId = {engine.shapes[i].id}

C14_Witness == Hovering /\ Cardinality(Passing) > 1 /\ engine.hoveredId # {}

(***************************************************************************)
(* The box-selection session: a line across the left edge of the square    *)
(* (0,0)-(10,10), a line inside it and a hidden line inside it.  The user  *)
(* drags boxes between the corners of the square with the select tool,     *)
(* with every object snap on or every object snap off.                     *)
(***************************************************************************)
BoxScene == <<Line(1, -5, 5, 5, 5), Line(2, 4, 4, 6, 4), Hidden(Line(3, 4, 6, 6, 6))>>

BoxCursors == {P(0, 0), P(10, 10), P(10, 0), P(0, 10)}

BoxLim == Lim(Len(BoxScene), 0)

InitBox ==
    \E on \in BOOLEAN :
        InitFrom([NewSys(BoxScene, {}) EXCEPT !.engine.snapSettings = [k \in SnapKinds |-> on]])

BoxMove == MouseMoveAt(BoxCursors, BoxLim)
BoxDown == ~tools.select.isDragging /\ MouseDownAt(BoxLim)
BoxUp == MouseUpAt(BoxLim)

NextBox == BoxMove \/ BoxDown \/ BoxUp

SpecBox == InitBox /\ [][NextBox]_vars

(* the bounding box of shape lies entirely inside the box with corners     *)
(* (x1, y1) and (x2, y2)                                                   *)
LiesInside(shape, box) ==
    /\ getBoundingBox(shape).ok
    /\ \A x \in {getBoundingBox(shape).x, RAdd(getBoundingBox(shape).x, getBoundingBox(shape).w)} :
          (RLe(box.x1, x) /\ RLe(x, box.x2)) \/ (RLe(box.x2, x) /\ RLe(x, box.x1))
    /\ \A y \in {getBoundingBox(shape).y, RAdd(getBoundingBox(shape).y, getBoundingBox(shape).h)} :
          (RLe(box.y1, y) /\ RLe(y, box.y2)) \/ (RLe(box.y2, y) /\ RLe(y, box.y1))

InsideIds(box) ==
    {engine.shapes[i].id : i \in {j \in DOMAIN engine.shapes :
        ~engine.shapes[j].hidden /\ LiesInside(engine.shapes[j], box)}}

(* a box drag of the select tool ends *)
BoxEnds == ev'.op = "up" /\ tools.select.mode = "box" /\ engine.selectionBox # Null

(* C8: a box drag that ends is a crossing selection exactly when x2 < x1;  *)
(* a window selection adds exactly the visible shapes whose bounding box   *)
(* lies entirely inside the box.                                           *)
C8_WindowOrCrossing ==
    [][BoxEnds =>
          engine'.selectedIds = engine.selectedIds \cup
              (IF RLt(engine.selectionBox.x2, engine.selectionBox.x1)
               THEN getShapesInBox(engine, engine.selectionBox.x1, engine.selectionBox.y1,
                                   engine.selectionBox.x2, engine.selectionBox.y2, TRUE)
               ELSE InsideIds(engine.selectionBox))]_vars

(* the window box from (0,0) to (10,10) has taken the line inside it and   *)
(* left the line across its edge                                           *)
C8_Witness ==
    /\ ev.op = "up" /\ tools.select.mode = "box" /\ tools.select.startPos = P(0, 0)
    /\ engine.lastMouse = P(10, 10) /\ engine.selectedIds = {2}

(***************************************************************************)
(* The geometry and coordinate functions on their own: the arguments are   *)
(* drawn at the start and one call is made with them                       *)
(***************************************************************************)
GeomGrid == {P(x, y) : x \in 0..2, y \in 0..2}

(* anchors, as offsets from the centre, and radii for which Math.sqrt of   *)
(* the squared tangent length is exact                                     *)
TangentCenters == {P(0, 0), P(1, -2)}
TangentOffsets ==
    {P(3, 4), P(-4, 3), P(5, 0), P(0, -5), P(6, 8), P(-8, 6), P(1, 1), P(0, 0), P(-2, 0)}
TangentRadii == {R(3), R(4), R(5), R(6), R(8)}

ExactRoot(a) == ISqrt(a[1]) * ISqrt(a[1]) = a[1] /\ ISqrt(a[2]) * ISqrt(a[2]) = a[2]

TangentInputs ==
    {<<<<RAdd(c[1], o[1]), RAdd(c[2], o[2])>>, c, r>> :
        <<o, c, r>> \in {q \in TangentOffsets \X TangentCenters \X TangentRadii :
            RLe(Dot(q[1], q[1]), RSq(q[3])) \/ ExactRoot(RSub(Dot(q[1], q[1]), RSq(q[3])))}}

TripPoints == {P(0, 0), P(3, 4), P(-7, 2), P(120, 80)}
TripPans == {P(0, 0), P(3, -2), P(400, 300)}
TripZooms == {R(1), R(2), <<1, 2>>, <<1, 50>>, R(50), R(-1), R(-2)}

GeomShapes ==
    {Line(1, -5, 5, 5, 5), Line(1, -5, 0, 15, 0), Line(1, 2, 2, 4, 4), Line(1, 20, 20, 30, 30),
     Line(1, 5, -5, 5, 15), Rectangle(1, 8, 8, 4, 4), Rectangle(1, -2, -2, 14, 14),
     Polyline(1, <<P(-5, -5), P(5, -5), P(5, 3)>>, FALSE), Circle(1, 12, 5, 3)}
GeomCorners == {P(0, 0), P(10, 10), P(10, 0), P(0, 10)}

Input(fn, in) == ev = Ev("input", [fn |-> fn, in |-> in])

InitGeom ==
    /\ engine = NewEngine(<<>>, {})
    /\ manager = NewManager
    /\ tools = NewTools
    /\ calls = <<>>
    /\ api = NewApi(<<>>)
    /\ switches = 0
    /\ \/ \E q \in GeomGrid \X GeomGrid \X GeomGrid \X GeomGrid : Input("lineLineIntersection", q)
       \/ \E q \in GeomGrid \X GeomGrid \X GeomGrid : Input("closestPointOnSegment", q)
       \/ \E q \in TangentInputs : Input("calculateTangentPoints", q)
       \/ \E q \in TripPoints \X TripPans \X TripZooms : Input("worldToScreen", q)
       \/ \E q \in GeomShapes \X GeomCorners \X GeomCorners : Input("isShapeInBox", q)

Called(fn) == ev.op = "input" /\ ev.arg.fn = fn

Returns(out) ==
    /\ ev' = Ev(ev.arg.fn, [in |-> ev.arg.in, out |-> out])
    /\ UNCHANGED <<engine, manager, tools, calls, api, switches>>

CallIntersection ==
    /\ Called("lineLineIntersection")
    /\ Returns(lineLineIntersection(ev.arg.in[1], ev.arg.in[2], ev.arg.in[3], ev.arg.in[4]))

CallClosest ==
    /\ Called("closestPointOnSegment")
    /\ Returns(closestPointOnSegment(ev.arg.in[1], ev.arg.in[2], ev.arg.in[3]))

CallTangents ==
    /\ Called("calculateTangentPoints")
    /\ Returns(calculateTangentPoints(ev.arg.in[1], ev.arg.in[2], ev.arg.in[3]))

(* the view of an engine panned and zoomed as given *)
ViewOf(pan, zoom) == [NewEngine(<<>>, {}) EXCEPT !.pan = pan, !.zoom = zoom]

CallRoundTrip ==
    /\ Called("worldToScreen")
    /\ Returns(worldToScreen(ViewOf(ev.arg.in[2], ev.arg.in[3]),
                            screenToWorld(ViewOf(ev.arg.in[2], ev.arg.in[3]), ev.arg.in[1])))

BothModes(shape, c1, c2) ==
    [window |-> isShapeInBox(shape, c1[1], c1[2], c2[1], c2[2], FALSE),
     crossing |-> isShapeInBox(shape, c1[1], c1[2], c2[1], c2[2], TRUE)]

CallInBox ==
    /\ Called("isShapeInBox")
    /\ Returns(BothModes(ev.arg.in[1], ev.arg.in[2], ev.arg.in[3]))

NextGeom == CallIntersection \/ CallClosest \/ CallTangents \/ CallRoundTrip \/ CallInBox

SpecGeom == InitGeom /\ [][NextGeom]_vars

(* plane geometry the claims are stated in *)
Sign(a) == IF a[1] > 0 THEN 1 ELSE IF a[1] < 0 THEN -1 ELSE 0

(* the side of the line a-b that c lies on *)
Turn(a, b, c) == Sign(Cross(Sub2(b, a), Sub2(c, a)))

(* q lies in the axis-parallel box spanned by a and b *)
Within(q, a, b) ==
    /\ RLe(RMin(a[1], b[1]), q[1]) /\ RLe(q[1], RMax(a[1], b[1]))
    /\ RLe(RMin(a[2], b[2]), q[2]) /\ RLe(q[2], RMax(a[2], b[2]))

(* q is a point of the segment [a, b] *)
OnSegment(q, a, b) == Turn(a, b, q) = 0 /\ Within(q, a, b)

(* the segments [a, b] and [c, d] have a common point *)
SegmentsMeet(a, b, c, d) ==
    \/ Turn(a, b, c) # Turn(a, b, d) /\ Turn(c, d, a) # Turn(c, d, b)
    \/ OnSegment(c, a, b) \/ OnSegment(d, a, b)
    \/ OnSegment(a, c, d) \/ OnSegment(b, c, d)

Parallel(p1, p2, p3, p4) == Sign(Cross(Sub2(p2, p1), Sub2(p4, p3))) = 0

(* the parameter of q along a-b lies in [0, 1] *)
ParamInUnit(q, a, b) == RLe(R(0), ProjT(q, a, b)) /\ RLe(ProjT(q, a, b), R(1))

IntersectionSound(p1, p2, p3, p4, out) ==
    /\ out # Null =>
          /\ ParamInUnit(out, p1, p2) /\ ParamInUnit(out, p3, p4)
          /\ OnSegment(out, p1, p2) /\ OnSegment(out, p3, p4)
    /\ Parallel(p1, p2, p3, p4) => out = Null

(* C15: lineLineIntersection returns a point only if both line parameters  *)
(* lie in [0,1], the point then lies on both segments, and it returns null *)
(* whenever the two segments are parallel.                                 *)
C15_IntersectionOnBothSegments ==
    ev.op = "lineLineIntersection" =>
        IntersectionSound(ev.arg.in[1], ev.arg.in[2], ev.arg.in[3], ev.arg.in[4], ev.arg.out)

(* the diagonals of the square from (0,0) to (2,2) meet at (1,1) *)
C15_Witness ==
    /\ ev.op = "lineLineIntersection"
    /\ ev.arg.in = <<P(0, 0), P(2, 2), P(0, 2), P(2, 0)>>
    /\ ev.arg.out = P(1, 1)

SegSamples == 8

(* q is a point of [a, b] and no point of [a, b] is closer to p: the       *)
(* sampled points are not, and p - q makes no acute angle with the         *)
(* direction from q to either end                                          *)
ClosestOn(p, a, b, q) ==
    /\ OnSegment(q, a, b)
    /\ \A k \in 0..SegSamples : RLe(DistSq(p, q), DistSq(p, Along(a, b, RNorm(k, SegSamples))))
    /\ \A e \in {a, b} : RLe(Dot(Sub2(p, q), Sub2(e, q)), R(0))

(* C16: closestPointOnSegment(p, a, b) is a point of the segment [a,b] and *)
(* no other point of that segment is closer to p.                          *)
C16_ClosestOnSegment ==
    ev.op = "closestPointOnSegment" =>
        ClosestOn(ev.arg.in[1], ev.arg.in[2], ev.arg.in[3], ev.arg.out)

(* the projection of (2,1) falls beyond the end (1,0), which is answered *)
C16_Witness ==
    /\ ev.op = "closestPointOnSegment"
    /\ ev.arg.in = <<P(2, 1), P(0, 0), P(1, 0)>>
    /\ ev.arg.out = P(1, 0)

TangentAnswer(anchor, center, radius, out) ==
    /\ RLt(RSq(radius), DistSq(anchor, center)) =>
          /\ Len(out) = 2 /\ out[1] # out[2]
          /\ \A i \in 1..2 :
                /\ DistSq(out[i], center) = RSq(radius)
                /\ Dot(Sub2(out[i], anchor), Sub2(center, out[i])) = R(0)
    /\ RLt(DistSq(anchor, center), RSq(radius)) => out = <<>>
    /\ DistSq(anchor, center) = RSq(radius) => out = <<anchor>>

(* C17: for an anchor strictly outside the circle calculateTangentPoints   *)
(* returns two points at distance radius from the center with the          *)
(* anchor-to-tangent segment perpendicular to the radius; strictly inside  *)
(* it returns no point; on the circle it returns the anchor itself.        *)
C17_TangentPoints ==
    ev.op = "calculateTangentPoints" =>
        TangentAnswer(ev.arg.in[1], ev.arg.in[2], ev.arg.in[3], ev.arg.out)

(* from (5,0) the circle of radius 3 about the origin is touched at        *)
(* (9/5, 12/5) and (9/5, -12/5)                                            *)
C17_Witness ==
    /\ ev.op = "calculateTangentPoints"
    /\ ev.arg.in = <<P(5, 0), P(0, 0), R(3)>>
    /\ {ev.arg.out[i] : i \in DOMAIN ev.arg.out} = {<<<<9, 5>>, <<12, 5>>>>, <<<<9, 5>>, <<-12, 5>>>>}

(* C13: for any finite point p, finite pan and finite non-zero zoom,       *)
(* negative values included, worldToScreen(screenToWorld(p)) returns p.    *)
C13_RoundTrip == ev.op = "worldToScreen" => ev.arg.out = ev.arg.in[1]

(* the round trip under a positive zoom *)
C13_PositiveZoom ==
    (ev.op = "worldToScreen" /\ RLt(R(0), ev.arg.in[3])) => ev.arg.out = ev.arg.in[1]

(* a segment of the shape meets a side of the box, or one of its ends lies *)
(* in the box                                                              *)
MeetsBox(seg, c1, c2) ==
    \/ Within(seg[1], c1, c2) \/ Within(seg[2], c1, c2)
    \/ \E i \in 1..4 :
          SegmentsMeet(seg[1], seg[2],
                       RectSides(RMin(c1[1], c2[1]), RMin(c1[2], c2[2]),
                                 RMax(c1[1], c2[1]), RMax(c1[2], c2[2]))[i][1],
                       RectSides(RMin(c1[1], c2[1]), RMin(c1[2], c2[2]),
                                 RMax(c1[1], c2[1]), RMax(c1[2], c2[2]))[i][2])

Crosses(shape, c1, c2) ==
    /\ shape.type \in {"line", "polyline", "rectangle"}
    /\ \E i \in DOMAIN getSegments(shape) : MeetsBox(getSegments(shape)[i], c1, c2)

(* C9: for the same two corners every shape selected in window mode is     *)
(* also selected in crossing mode, and crossing mode selects every line,   *)
(* polyline or rectangle with a segment meeting the box boundary or an end *)
(* inside the box.                                                         *)
C9_CrossingCoversWindow ==
    ev.op = "isShapeInBox" =>
        /\ ev.arg.out.window => ev.arg.out.crossing
        /\ Crosses(ev.arg.in[1], ev.arg.in[2], ev.arg.in[3]) => ev.arg.out.crossing

(* the part of C9 about the window selection alone *)
C9_WindowWithinCrossing == ev.op = "isShapeInBox" => (ev.arg.out.window => ev.arg.out.crossing)

(* C9's example: the line from (-5,5) to (5,5) and the corners (10,10), (0,0) *)
C9_Example ==
    /\ ev.op = "isShapeInBox"
    /\ ev.arg.in = <<Line(1, -5, 5, 5, 5), P(10, 10), P(0, 0)>>
    /\ ev.arg.out = [window |-> FALSE, crossing |-> TRUE]

(***************************************************************************)
(* A session of zooming and panning over a drawing, from the initial view  *)
(***************************************************************************)
(* the exact fractions of three events stay within 32 bits *)
MaxViewSteps == 3

(* a drawing 15 wide, one 30000 wide, one 100 by 50, and none *)
ViewScenes ==
    {<<>>, <<Line(1, 0, 0, 15, 0)>>, <<Line(1, 0, 0, 30000, 0)>>, <<Line(1, 0, 0, 100, 50)>>}
ViewAnchors == {P(400, 300), P(0, 0)}
ViewCursors == {P(100, 100), P(130, 60)}
ViewLim == Lim(1, 0)

(* ev.arg: the events so far, the screen position zoomed about and the     *)
(* zoom before the event                                                   *)
ViewEv(op, at) == Ev(op, [n |-> ev.arg.n + 1, at |-> at, from |-> engine.zoom])

InitView ==
    \E scene \in ViewScenes :
        /\ engine = NewEngine(scene, {})
        /\ manager = NewManager
        /\ tools = NewTools
        /\ calls = <<>>
        /\ api = NewApi(scene)
        /\ switches = 0
        /\ ev = Ev("init", [n |-> 0, at |-> Null, from |-> R(1)])

ViewStep(e, op, at) ==
    /\ ev.arg.n < MaxViewSteps
    /\ Assign([Cur EXCEPT !.engine = e], ViewEv(op, at), ViewLim)

ViewWheel == \E pos \in ViewAnchors, up \in BOOLEAN : ViewStep(engine_onWheel(engine, pos, up), "wheel", pos)
ViewZoomIn == ViewStep(zoomIn(engine), "zoomIn", CanvasCenter(engine))
ViewZoomOut == ViewStep(zoomOut(engine), "zoomOut", CanvasCenter(engine))
ViewFit == ViewStep(zoomToFit(engine), "zoomToFit", Null)

ViewPanDown ==
    /\ ~engine.isPanning
    /\ ViewStep(engine_onMiddleDown(Cur, engine.lastMouse).engine, "panDown", Null)

ViewPanMove ==
    /\ engine.isPanning
    /\ \E pos \in ViewCursors : ViewStep(engine_onMouseMove(Cur, pos).engine, "pan", Null)

ViewPanUp ==
    /\ engine.isPanning
    /\ ViewStep(engine_onMouseUp(Cur).engine, "panUp", Null)

NextView ==
    ViewWheel \/ ViewZoomIn \/ ViewZoomOut \/ ViewFit \/ ViewPanDown \/ ViewPanMove \/ ViewPanUp

SpecView == InitView /\ [][NextView]_vars

ZoomOps == {"wheel", "zoomIn", "zoomOut"}

(* C11: after a wheel zoom at a screen position, and after zoomIn or       *)
(* zoomOut at the canvas centre, the world point that mapped to that       *)
(* position before the zoom still maps to it, also when the new zoom is    *)
(* clamped at minZoom or maxZoom.                                          *)
C11_AnchorKept ==
    [][ev'.op \in ZoomOps =>
          worldToScreen(engine', screenToWorld(engine, ev'.arg.at)) = ev'.arg.at]_vars

(* a wheel step at the corner of a panned view that the clamp at maxZoom   *)
(* cut short, and one at minZoom                                           *)
CutShort(op, limit, factor) ==
    /\ ev.op = op /\ engine.zoom = limit
    /\ ev.arg.from # limit /\ RMul(ev.arg.from, factor) # limit

C11_Witness ==
    /\ CutShort("wheel", MaxZoom, WheelFactor(TRUE))
    /\ ev.arg.at = P(0, 0) /\ engine.pan # P(0, 0)

(* C12: after any sequence of wheel, zoomIn, zoomOut, zoomToFit and pan    *)
(* operations from the initial view, minZoom <= zoom <= maxZoom.           *)
C12_ZoomInRange == RLe(MinZoom, engine.zoom) /\ RLe(engine.zoom, MaxZoom)

(* zoomOut has been stopped at minZoom *)
C12_Witness == CutShort("zoomOut", MinZoom, RInv(ButtonFactor))

(***************************************************************************)
(* The fillet construction on its own: two lines, a radius and a zoom are  *)
(* drawn at the start and _showPreview is called on an empty preview       *)
(***************************************************************************)
FilletLines ==
    {Line(1, 0, 0, 10, 0), Line(2, 0, 0, 0, 10), Line(3, 0, 5, 10, 5), Line(4, 10, 0, 10, 10),
     Line(5, 0, 0, 8, 6), Line(6, 5, 5, 5, 5), Line(7, 2, -4, 2, 6)}
FilletRadii == {R(0), R(1), R(2)}
FilletZooms == {R(1), R(2)}

FilletInputs ==
    {q \in FilletLines \X FilletLines \X FilletRadii \X FilletZooms : q[1].id # q[2].id}

InitFillet ==
    /\ engine = NewEngine(<<>>, {})
    /\ manager = NewManager
    /\ tools = NewTools
    /\ calls = <<>>
    /\ api = NewApi(<<>>)
    /\ switches = 0
    /\ \E q \in FilletInputs : Input("showPreview", q)

CallShowPreview ==
    /\ Called("showPreview")
    /\ Returns(showPreview(ViewOf(P(0, 0), ev.arg.in[4]), ev.arg.in[3], ev.arg.in[1],
                           ev.arg.in[2]))

NextFillet == CallShowPreview

SpecFillet == InitFillet /\ [][NextFillet]_vars

(* the corner of the two lines of the call *)
CornerOf(in) == lineLineInf(in[1].a, in[1].b, in[2].a, in[2].b)

(* an arc runs from its start angle to its end angle by increasing angle,  *)
(* as isAngleBetween and the canvas read it                                *)
ArcSweep(arc) ==
    FullSweep(RMod(RSub(RMod(arc.endAngle, 360), RMod(arc.startAngle, 360)), 360))

(* the point of the arc at its middle angle, and the one of the other sweep *)
ArcMid(arc) ==
    OnFillet(arc.c, arc.r, RAdd(RMod(arc.startAngle, 360), RDiv(ArcSweep(arc), R(2))))
ArcOpposite(arc) ==
    OnFillet(arc.c, arc.r,
             RSub(RMod(arc.startAngle, 360), RDiv(RSub(R(360), ArcSweep(arc)), R(2))))

ArcBuilt ==
    /\ ev.op = "showPreview" /\ ev.arg.out # Null
    /\ Len(ev.arg.out.list) = 4 /\ ev.arg.out.list[1].type = "arc"

(* C21 as stated: the fillet arc runs along the sweep whose angular        *)
(* midpoint is farther from the lines' intersection.                       *)
C21_SweepFarther ==
    ArcBuilt => RLe(DistSq(ArcOpposite(ev.arg.out.list[1]), CornerOf(ev.arg.in)),
                    DistSq(ArcMid(ev.arg.out.list[1]), CornerOf(ev.arg.in)))

(* C21: the fillet arc produced between two non-parallel lines runs from   *)
(* its start angle to its end angle along the one of the two sweeps whose  *)
(* angular midpoint is nearer to the lines' intersection.                  *)
C21_SweepNearer ==
    ArcBuilt => RLt(DistSq(ArcMid(ev.arg.out.list[1]), CornerOf(ev.arg.in)),
                    DistSq(ArcOpposite(ev.arg.out.list[1]), CornerOf(ev.arg.in)))

(* the right angle at the origin with radius 2: the angles are exchanged   *)
(* and the arc runs from 180 to 270 degrees, a quarter turn                *)
C21_Witness ==
    /\ ArcBuilt
    /\ ev.arg.in[1] = Line(1, 0, 0, 10, 0) /\ ev.arg.in[2] = Line(2, 0, 0, 0, 10)
    /\ ev.arg.in[3] = R(2)
    /\ ev.arg.out.list[1].startAngle = R(180) /\ ev.arg.out.list[1].endAngle = R(-90)
    /\ ArcSweep(ev.arg.out.list[1]) = R(90)

NoCorner(in) ==
    \/ Parallel(in[1].a, in[1].b, in[2].a, in[2].b)
    \/ in[1].a = in[1].b \/ in[2].a = in[2].b

(* C22: the fillet construction produces no geometry for parallel lines or *)
(* a zero-length direction, and for radius 0 only a marker at the lines'   *)
(* intersection and no arc; every call returns.                            *)
C22_DegenerateFillet ==
    ev.op = "showPreview" =>
        /\ NoCorner(ev.arg.in) => ev.arg.out = Null
        /\ (~NoCorner(ev.arg.in) /\ ev.arg.in[3] = R(0)) =>
              /\ Len(ev.arg.out.list) = 1
              /\ ev.arg.out.list[1].type = "circle"
              /\ ev.arg.out.list[1].c = CornerOf(ev.arg.in)

(* radius 0 at the right angle at the origin: one marker at (0,0) *)
C22_Witness ==
    /\ ev.op = "showPreview"
    /\ ev.arg.in[1] = Line(1, 0, 0, 10, 0) /\ ev.arg.in[2] = Line(2, 0, 0, 0, 10)
    /\ ev.arg.in[3] = R(0)
    /\ Len(ev.arg.out.list) = 1 /\ ev.arg.out.list[1].c = P(0, 0)

(* parallel lines leave the preview empty *)
C22_ParallelSeen ==
    /\ ev.op = "showPreview"
    /\ ev.arg.in[1] = Line(1, 0, 0, 10, 0) /\ ev.arg.in[2] = Line(3, 0, 5, 10, 5)
    /\ ev.arg.out = Null

(***************************************************************************)
(* The snap resolver on its own: a scene, a cursor, a zoom, a base point   *)
(* and the snap settings are drawn at the start and findSnapPoint is       *)
(* called with the tolerance of the mouse handler.                         *)
(***************************************************************************)
(* two crossing lines with far ends and a third line ending at (6,9) *)
GateScene == <<Line(1, -20, 4, 60, 4), Line(2, 3, -60, 3, 20), Line(3, 6, 9, 60, 9)>>

ResolveScenes == {SnapScene, GateScene}
ResolveCursors == {P(3, 4), P(1, 0), P(10, 0), P(3, 5), P(8, 0)}
ResolveBases == {Null, SnapAnchorAt}

AllOn == [k \in SnapKinds |-> TRUE]
Without(kind) == [AllOn EXCEPT ![kind] = FALSE]
Only(kind) == [k \in SnapKinds |-> k = kind]
ResolveSettings ==
    {AllOn, [k \in SnapKinds |-> FALSE]}
        \cup {Without(k) : k \in SnapKinds} \cup {Only(k) : k \in SnapKinds}

ResolveInputs ==
    ResolveScenes \X ResolveCursors \X SnapZooms \X ResolveBases \X ResolveSettings

InitResolve ==
    /\ engine = NewEngine(<<>>, {})
    /\ manager = NewManager
    /\ tools = NewTools
    /\ calls = <<>>
    /\ api = NewApi(<<>>)
    /\ switches = 0
    /\ \E q \in ResolveInputs : Input("findSnapPoint", q)

(* the engine of a call *)
ResolveEngine(in) ==
    [NewEngine(in[1], {}) EXCEPT !.zoom = in[3], !.snapBasePoint = in[4]]

CallFindSnapPoint ==
    /\ Called("findSnapPoint")
    /\ Returns(findSnapPoint(ResolveEngine(ev.arg.in), ev.arg.in[2], SnapTolerance,
                             ev.arg.in[5]))

NextResolve == CallFindSnapPoint

SpecResolve == InitResolve /\ [][NextResolve]_vars

Resolved == ev.op = "findSnapPoint"

(* C23: findSnapPoint never returns a snap point whose kind is disabled in *)
(* the snap settings, for every kind among endpoint, midpoint, center,     *)
(* quadrant, intersection, perpendicular, tangent, extension and nearest.  *)
C23_OnlyEnabledKinds ==
    (Resolved /\ ev.arg.out # NoSnap) =>
        /\ ev.arg.out.type \in SnapKinds \ {"grid"}
        /\ ev.arg.in[5][ev.arg.out.type] = TRUE

(* with endpoints switched off the centre of the circle is returned at the *)
(* origin, where both lines end                                            *)
C23_Witness ==
    /\ Resolved /\ ev.arg.in[1] = SnapScene /\ ev.arg.in[2] = P(1, 0)
    /\ ev.arg.in[5] = Without("endpoint")
    /\ ev.arg.out = Snap("center", P(0, 0))
    /\ Snap("endpoint", P(0, 0)) \in SeqRange(StaticCands(SnapScene, AllOn))

(* the squared distance of a candidate from the cursor of a call *)
Away(in, c) == DistSq(in[2], c.point)
TolSqOf(in) == RSq(RDiv(R(SnapTolerance), in[3]))
GateSqOf(in, g) == RSq(RDiv(R(g), in[3]))

(* no candidate of cands lies within tolerance and within g / zoom *)
NoneWithin(in, cands, g) ==
    \A i \in DOMAIN cands :
        ~(RLt(Away(in, cands[i]), TolSqOf(in)) /\ RLe(Away(in, cands[i]), GateSqOf(in, g)))

(* the candidates findSnapPoint hands to checkPoint, in its order *)
Tier1(in) == StaticCands(in[1], in[5])
Tier2(in) ==
    Tier1(in) \o (IF in[5]["intersection"] /\ NoneWithin(in, Tier1(in), IntersectionGate)
                  THEN IntersectionCands(in[1]) ELSE <<>>)
Tier3(in) ==
    Tier2(in)
      \o (IF in[4] # Null /\ in[5]["perpendicular"]
          THEN PerpendicularCands(in[1], in[4]) ELSE <<>>)
      \o (IF in[4] # Null /\ in[5]["tangent"] THEN TangentCands(in[1], in[4]) ELSE <<>>)
      \o (IF in[5]["extension"]
          THEN ExtensionCands(in[1], in[2], RDiv(R(SnapTolerance), in[3]), in[3]) ELSE <<>>)
Enumerated(in) ==
    Tier3(in) \o (IF in[5]["nearest"] /\ NoneWithin(in, Tier3(in), NearestGate)
                  THEN NearestCands(in[1], in[2]) ELSE <<>>)

(* the first of the closest candidates within tolerance *)
FirstClosest(in, cands) ==
    IF \A i \in DOMAIN cands : ~RLt(Away(in, cands[i]), TolSqOf(in)) THEN NoSnap
    ELSE cands[CHOOSE i \in DOMAIN cands :
                 /\ RLt(Away(in, cands[i]), TolSqOf(in))
                 /\ \A j \in DOMAIN cands :
                       IF j < i THEN RLt(Away(in, cands[i]), Away(in, cands[j]))
                       ELSE RLe(Away(in, cands[i]), Away(in, cands[j]))]

(* C24: in findSnapPoint a later candidate replaces the current best only  *)
(* when it is strictly closer to the cursor; of candidates at equal        *)
(* distance the one enumerated first (earlier tier, then earlier shape) is *)
(* the one returned.                                                       *)
C24_FirstOfEqualWins ==
    Resolved => ev.arg.out = FirstClosest(ev.arg.in, Enumerated(ev.arg.in))

(* one unit from the origin the end of the first line, the end of the      *)
(* second line and the centre of the circle are equally far: the end of    *)
(* the first line is returned                                              *)
C24_Witness ==
    /\ Resolved /\ ev.arg.in[1] = SnapScene /\ ev.arg.in[2] = P(1, 0)
    /\ ev.arg.in[5] = AllOn
    /\ ev.arg.out = Snap("endpoint", P(0, 0))
    /\ Enumerated(ev.arg.in)[1] = Snap("endpoint", P(0, 0))
    /\ Snap("center", P(0, 0)) \in SeqRange(Enumerated(ev.arg.in))

(* a tier-1 candidate at distance less than, or at most, 5 / zoom *)
StaticCloser(in) ==
    \E c \in SeqRange(Tier1(in)) : RLt(Away(in, c), GateSqOf(in, IntersectionGate))
StaticAtMost(in) ==
    \E c \in SeqRange(Tier1(in)) : RLe(Away(in, c), GateSqOf(in, IntersectionGate))

(* the intersections within tolerance of the cursor *)
CrossingsNear(in) ==
    {c \in SeqRange(IntersectionCands(in[1])) : RLt(Away(in, c), TolSqOf(in))}

(* what shows that the intersection tier was evaluated: the snap returned  *)
(* is no farther than any intersection within tolerance; and that it was   *)
(* not: the snap returned is no intersection                               *)
CrossingsSeen(in, out) ==
    \A c \in CrossingsNear(in) : out # NoSnap /\ RLe(Away(in, out), Away(in, c))
CrossingsSkipped(out) == out.type # "intersection"

(* C25 as stated: with intersection snapping enabled the intersection tier *)
(* is evaluated if and only if no tier-1 candidate lies at distance less   *)
(* than 5 / zoom from the cursor.                                          *)
C25_GateBelowFive ==
    (Resolved /\ ev.arg.in[5]["intersection"]) =>
        IF StaticCloser(ev.arg.in) THEN CrossingsSkipped(ev.arg.out)
        ELSE CrossingsSeen(ev.arg.in, ev.arg.out)

(* C25: with intersection snapping enabled the intersection tier of        *)
(* findSnapPoint is evaluated if and only if no tier-1 candidate lies at   *)
(* distance at most 5 / zoom from the cursor.                              *)
C25_GateUpToFive ==
    (Resolved /\ ev.arg.in[5]["intersection"]) =>
        IF StaticAtMost(ev.arg.in) THEN CrossingsSkipped(ev.arg.out)
        ELSE CrossingsSeen(ev.arg.in, ev.arg.out)

(* the end (6,9) of the third line is exactly 5 from the cursor (3,5) and  *)
(* the crossing (3,4) is 1 away: the crossing is not looked at             *)
C25_Witness ==
    /\ Resolved /\ ev.arg.in[1] = GateScene /\ ev.arg.in[2] = P(3, 5)
    /\ ev.arg.in[3] = R(1) /\ ev.arg.in[5] = AllOn
    /\ Snap("intersection", P(3, 4)) \in CrossingsNear(ev.arg.in)
    /\ StaticAtMost(ev.arg.in) /\ ~StaticCloser(ev.arg.in)
    /\ ev.arg.out # NoSnap /\ ev.arg.out.type # "intersection"

(* at zoom 2 the end is farther than 5 / 2 and the crossing is returned *)
C25_CrossingSeen ==
    /\ Resolved /\ ev.arg.in[1] = GateScene /\ ev.arg.in[2] = P(3, 5)
    /\ ev.arg.in[3] = R(2) /\ ev.arg.in[5] = AllOn
    /\ ev.arg.out = Snap("intersection", P(3, 4))

(***************************************************************************)
(* The anchor of the perpendicular and tangent snaps in the command        *)
(* session                                                                 *)
(***************************************************************************)
AnchoredKinds == {"perpendicular", "tangent"}

(* C26: whenever the active tool is in its initial state (nothing picked   *)
(* yet, also after it completed or cancelled a command),                   *)
(* engine.snapBasePoint is null and the snap found is neither              *)
(* perpendicular nor tangent.                                              *)
C26_AnchorOnlyInCommand ==
    InitialCommandState(tools, manager.currentTool) =>
        /\ engine.snapBasePoint = Null
        /\ engine.snapPoint.type \notin AnchoredKinds

(***************************************************************************)
(* Non-finite numbers.  A number is a fraction, or NaN, Infinity or        *)
(* -Infinity, written with denominator 0; the operators below are the      *)
(* arithmetic of the language on them (a zero has no sign here).           *)
(***************************************************************************)
NaN == <<0, 0>>
Infinity == <<1, 0>>
NegInfinity == <<-1, 0>>

isFinite(a) == a[2] # 0

SignOf(n) == IF n < 0 THEN -1 ELSE IF n > 0 THEN 1 ELSE 0

XMul(a, b) ==
    IF a = NaN \/ b = NaN THEN NaN
    ELSE IF isFinite(a) /\ isFinite(b) THEN RMul(a, b)
    ELSE IF a[1] = 0 \/ b[1] = 0 THEN NaN
    ELSE <<SignOf(a[1]) * SignOf(b[1]), 0>>

XAdd(a, b) ==
    IF a = NaN \/ b = NaN THEN NaN
    ELSE IF isFinite(a) /\ isFinite(b) THEN RAdd(a, b)
    ELSE IF isFinite(a) THEN b
    ELSE IF isFinite(b) \/ a = b THEN a
    ELSE NaN

XNeg(a) == IF isFinite(a) THEN RNeg(a) ELSE <<-a[1], 0>>

XSub(a, b) == XAdd(a, XNeg(b))

XDiv(a, b) ==
    IF a = NaN \/ b = NaN THEN NaN
    ELSE IF isFinite(a) /\ isFinite(b)
      THEN IF b[1] # 0 THEN RDiv(a, b)
           ELSE IF a[1] = 0 THEN NaN ELSE <<SignOf(a[1]), 0>>
    ELSE IF isFinite(a) THEN R(0)
    ELSE IF isFinite(b) THEN <<a[1] * (IF b[1] < 0 THEN -1 ELSE 1), 0>>
    ELSE NaN

(* v || 0 *)
OrZero(a) == IF a = NaN THEN R(0) ELSE a

(* CanvasEngine.screenToWorld with any zoom and pan *)
screenToWorldAny(e, sp) ==
    Bind3(IF isFinite(e.zoom) /\ RLt(R(0), e.zoom) THEN e.zoom ELSE R(1),
          IF isFinite(e.pan[1]) THEN e.pan[1] ELSE R(0),
          IF isFinite(e.pan[2]) THEN e.pan[2] ELSE R(0),
          LAMBDA zoom, px, py : <<XDiv(XSub(sp[1], px), zoom), XDiv(XSub(sp[2], py), zoom)>>)

(* CanvasEngine.worldToScreen with any zoom and pan *)
worldToScreenAny(e, wp) ==
    <<XAdd(XMul(wp[1], e.zoom), e.pan[1]), XAdd(XMul(wp[2], e.zoom), e.pan[2])>>

(* the tolerance of CanvasEngine.hitTest with any zoom *)
hitTestTol(e, tolerance) == XDiv(R(tolerance), e.zoom)

(* the coordinates _getBoundingBox reads from a shape, each with || 0 *)
ReadCoords(shape) ==
    IF shape.type \in {"line", "rectangle", "ellipse"}
    THEN [shape EXCEPT !.a = <<OrZero(@[1]), OrZero(@[2])>>,
                       !.b = <<OrZero(@[1]), OrZero(@[2])>>]
    ELSE [shape EXCEPT !.a = <<OrZero(@[1]), OrZero(@[2])>>, !.r = OrZero(@)]

(* isFinite of the sum of the coordinates read *)
SumFinite(shape) ==
    /\ isFinite(shape.a[1]) /\ isFinite(shape.a[2])
    /\ IF shape.type \in {"line", "rectangle", "ellipse"}
       THEN isFinite(shape.b[1]) /\ isFinite(shape.b[2])
       ELSE isFinite(shape.r)

(* the points of a polyline that count as valid *)
ValidPoints(pts) == SelectSeq(pts, LAMBDA q : isFinite(q[1]) /\ isFinite(q[2]))

(* CanvasEngine._getBoundingBox with any coordinates *)
getBoundingBoxAny(shape) ==
    IF shape.type \in {"line", "rectangle", "circle", "ellipse", "arc"}
    THEN IF SumFinite(ReadCoords(shape)) THEN getBoundingBox(ReadCoords(shape)) ELSE NoBox
    ELSE IF shape.type = "polyline" /\ ValidPoints(shape.pts) # <<>>
      THEN getBoundingBox([shape EXCEPT !.pts = ValidPoints(@)])
    ELSE NoBox

(***************************************************************************)
(* The coordinate transform and the bounding box on their own, with        *)
(* non-finite views and coordinates among the inputs                       *)
(***************************************************************************)
AnyPoints == {P(0, 0), P(3, 4), P(-6, 8)}
AnyPanParts == {R(0), R(10), NaN, Infinity}
AnyZooms == {R(1), R(2), <<1, 2>>, NaN, Infinity, NegInfinity}
AnyViews == AnyPoints \X (AnyPanParts \X AnyPanParts) \X AnyZooms

AnyParts == {R(0), R(4), NaN, Infinity}

AnyShapes ==
    {[Line(1, 0, 0, 0, 0) EXCEPT !.a = <<x, R(0)>>, !.b = <<R(0), y>>] :
        x \in AnyParts, y \in AnyParts}
    \cup {[Circle(1, 0, 0, 0) EXCEPT !.a = <<x, R(3)>>, !.r = r] :
        x \in AnyParts, r \in AnyParts}
    \cup {[Rectangle(1, 0, 0, 0, 0) EXCEPT !.a = <<x, R(1)>>, !.b = <<w, w>>] :
        x \in AnyParts, w \in AnyParts}
    \cup {Polyline(1, pts, FALSE) :
        pts \in {<<>>, <<P(1, 1)>>, <<P(0, 0), P(4, 3)>>, <<P(0, 0), <<NaN, R(1)>>, P(4, 3)>>,
                 <<<<Infinity, R(0)>>>>, <<P(2, 2), P(2, 2)>>}}

InitAny ==
    /\ engine = NewEngine(<<>>, {})
    /\ manager = NewManager
    /\ tools = NewTools
    /\ calls = <<>>
    /\ api = NewApi(<<>>)
    /\ switches = 0
    /\ \/ \E q \in AnyViews : Input("screenToWorld", q) \/ Input("worldToScreen", q)
       \/ \E z \in AnyZooms : Input("hitTest", <<z>>)
       \/ \E sh \in AnyShapes : Input("getBoundingBox", <<sh>>)

CallScreenToWorld ==
    /\ Called("screenToWorld")
    /\ Returns(screenToWorldAny(ViewOf(ev.arg.in[2], ev.arg.in[3]), ev.arg.in[1]))

CallWorldToScreen ==
    /\ Called("worldToScreen")
    /\ Returns(worldToScreenAny(ViewOf(ev.arg.in[2], ev.arg.in[3]), ev.arg.in[1]))

CallHitTest ==
    /\ Called("hitTest")
    /\ Returns(hitTestTol(ViewOf(P(0, 0), ev.arg.in[1]), HitTolerance))

CallBoundingBox ==
    /\ Called("getBoundingBox")
    /\ Returns(getBoundingBoxAny(ev.arg.in[1]))

NextAny == CallScreenToWorld \/ CallWorldToScreen \/ CallHitTest \/ CallBoundingBox

SpecAny == InitAny /\ [][NextAny]_vars

(* a non-finite zoom read as 1 and a non-finite pan coordinate as 0 *)
SafeZoom(z) == IF isFinite(z) THEN z ELSE R(1)
SafePan(pan) ==
    <<IF isFinite(pan[1]) THEN pan[1] ELSE R(0), IF isFinite(pan[2]) THEN pan[2] ELSE R(0)>>

ViewBroken(in) == ~(isFinite(in[3]) /\ isFinite(in[2][1]) /\ isFinite(in[2][2]))

FinitePoint(q) == isFinite(q[1]) /\ isFinite(q[2])

(* C27: if zoom or pan is non-finite, screenToWorld, worldToScreen and the *)
(* tolerance of hitTest behave as with zoom = 1 and pan = 0 in its place,  *)
(* so they return finite coordinates for every finite input.               *)
C27_NonFiniteViewFallsBack ==
    /\ (ev.op = "screenToWorld" /\ ViewBroken(ev.arg.in)) =>
          /\ FinitePoint(ev.arg.out)
          /\ ev.arg.out = screenToWorld(ViewOf(SafePan(ev.arg.in[2]), SafeZoom(ev.arg.in[3])),
                                        ev.arg.in[1])
    /\ (ev.op = "worldToScreen" /\ ViewBroken(ev.arg.in)) =>
          /\ FinitePoint(ev.arg.out)
          /\ ev.arg.out = worldToScreen(ViewOf(SafePan(ev.arg.in[2]), SafeZoom(ev.arg.in[3])),
                                        ev.arg.in[1])
    /\ (ev.op = "hitTest" /\ ~isFinite(ev.arg.in[1])) => ev.arg.out = R(HitTolerance)

(* screenToWorld does fall back: zoom NaN and pan (10, NaN) *)
C27_ScreenToWorldSafe ==
    /\ ev.op = "screenToWorld"
    /\ ev.arg.in = <<P(3, 4), <<R(10), NaN>>, NaN>>
    /\ ev.arg.out = P(-7, 4)

(* a shape without extent, and one with a non-finite coordinate *)
Degenerate(shape) ==
    IF shape.type = "line" THEN shape.a = shape.b
    ELSE IF shape.type = "rectangle" THEN shape.b[1] = R(0) \/ shape.b[2] = R(0)
    ELSE IF shape.type = "circle" THEN shape.r = R(0)
    ELSE Len(shape.pts) = 0

NonFinite(shape) ==
    IF shape.type \in {"line", "rectangle"} THEN ~(FinitePoint(shape.a) /\ FinitePoint(shape.b))
    ELSE IF shape.type = "circle" THEN ~(FinitePoint(shape.a) /\ isFinite(shape.r))
    ELSE \E i \in DOMAIN shape.pts : ~FinitePoint(shape.pts[i])

(* C28: _getBoundingBox returns null for every shape whose geometry is     *)
(* degenerate (zero-length line, zero-radius circle, empty polyline) or    *)
(* contains a non-finite coordinate, and every non-null result has finite  *)
(* x, y, w and h.                                                          *)
C28_BoxOnlyOfSoundShape ==
    ev.op = "getBoundingBox" =>
        /\ (Degenerate(ev.arg.in[1]) \/ NonFinite(ev.arg.in[1])) => ~ev.arg.out.ok
        /\ ev.arg.out.ok =>
              /\ isFinite(ev.arg.out.x) /\ isFinite(ev.arg.out.y)
              /\ isFinite(ev.arg.out.w) /\ isFinite(ev.arg.out.h)

(* what does hold: an empty polyline and an infinite coordinate give null, *)
(* and every box returned is finite                                        *)
C28_BoxFinite ==
    ev.op = "getBoundingBox" =>
        /\ ev.arg.out.ok =>
              /\ isFinite(ev.arg.out.x) /\ isFinite(ev.arg.out.y)
              /\ isFinite(ev.arg.out.w) /\ isFinite(ev.arg.out.h)
        /\ (ev.arg.in[1].type = "polyline" /\ Len(ev.arg.in[1].pts) = 0) => ~ev.arg.out.ok

(***************************************************************************)
(* The ids carried by the preview                                          *)
(***************************************************************************)
(* the records of engine.preview: none, one, or those of its list *)
PreviewRecords ==
    IF engine.preview = Null THEN <<>>
    ELSE IF "list" \in DOMAIN engine.preview THEN engine.preview.list
    ELSE <<engine.preview>>

(* the ids a preview record carries: that of the shape it was cloned from, *)
(* none when it was built from coordinates                                 *)
CarriedIds(rec) ==
    IF "shape" \in DOMAIN rec THEN {rec.shape.id}
    ELSE IF "id" \in DOMAIN rec THEN {rec.id}
    ELSE {}

(* C29: in every reachable state no record of engine.preview carries the   *)
(* id of a shape of the committed shape list, the per-item previews of the *)
(* polar and rectangular array included.                                   *)
C29_PreviewIdsFresh ==
    \A i \in DOMAIN PreviewRecords :
        CarriedIds(PreviewRecords[i]) \cap ShapeIds(engine.shapes) = {}

(* the rotated items of the polar array are clones of the selected shapes  *)
(* and carry their ids                                                     *)
C29_PolarCarriesId ==
    /\ manager.currentTool = "array" /\ tools.array.center # Null /\ tools.array.rotateItems
    /\ \E i \in DOMAIN PreviewRecords :
          CarriedIds(PreviewRecords[i]) \cap ShapeIds(engine.shapes) # {}

(***************************************************************************)
(* Escape in the drawing tools                                             *)
(***************************************************************************)
DrawingTools == {"line", "rectangle", "circle", "arc", "ellipse", "dimension", "polyline"}

EscapePressed ==
    ev.op = "key" /\ ev.arg = "Escape" /\ manager.currentTool \in DrawingTools

(* C30: after Escape in a shape-drawing tool the tool holds nothing of     *)
(* what was picked before, so the next shape it commits is built only from *)
(* points picked after the Escape and takes the tool's full number of      *)
(* picks, whatever state the tool was in when Escape was pressed.          *)
C30_EscapeForgetsPicks ==
    EscapePressed => InitialCommandState(tools, manager.currentTool)

(* the ellipse committed by two picks after an Escape: its rx is the one   *)
(* picked before the Escape                                                *)
C30_StaleRadius ==
    /\ EscapePressed /\ manager.currentTool = "ellipse"
    /\ tools.ellipse.center = Null /\ tools.ellipse.rx # R(0)

(***************************************************************************)
(* The master snap switch in the snapping session                          *)
(***************************************************************************)
(* C31: while the master snap switch is off, every point a tool consumes,  *)
(* in pointer-move previews as well as in pointer-down picks, equals the   *)
(* raw cursor world position.                                              *)
C31_SnapOffIsRaw ==
    (~manager.snapEnabled /\ manager.currentTool = "line" /\ tools.line.p1 # Null) =>
        /\ (ev.op = "move" /\ engine.preview # Null) => engine.preview.b = CursorWorld
        /\ ev.op = "down" => tools.line.p1 = CursorWorld

(* with the switch off the rubber band of the line still ends on the       *)
(* object snap the engine found                                            *)
C31_PreviewOnSnap ==
    /\ ~manager.snapEnabled /\ manager.currentTool = "line" /\ tools.line.p1 # Null
    /\ ev.op = "move" /\ engine.preview # Null /\ engine.snapPoint # NoSnap
    /\ engine.preview.b = engine.snapPoint.point /\ engine.preview.b # CursorWorld

(* the pick itself is raw *)
C31_PickRaw ==
    /\ ~manager.snapEnabled /\ manager.currentTool = "line" /\ ev.op = "down"
    /\ tools.line.p1 = CursorWorld

(***************************************************************************)
(* The selection session with a locked layer: the scene of the box         *)
(* session, the line inside the square on a locked layer.  The user clicks *)
(* and drags with the select tool, with or without ctrl.                   *)
(***************************************************************************)
LockedIds == {2}

LockCursors == BoxCursors \cup {P(5, 0), P(0, 5)}

InitLock == InitFrom(NewSys(BoxScene, LockedIds))

LockMove == MouseMoveAt(LockCursors, BoxLim)
LockDown == ~tools.select.isDragging /\ MouseDownAt(BoxLim)
LockUp == MouseUpAt(BoxLim)

NextLock == LockMove \/ LockDown \/ LockUp

SpecLock == InitLock /\ [][NextLock]_vars

(* C32: a shape on a locked layer is never added to the selection by the   *)
(* select tool, whether by click, by ctrl-click or by window or crossing   *)
(* box selection.                                                          *)
C32_LockedNeverSelected == engine.selectedIds \cap engine.locked = {}

(* a click next to the locked line, which is the topmost shape hit there,    *)
(* selects nothing and starts a box                                        *)
C32_ClickRefused ==
    /\ ev.op = "down" /\ tools.select.startPos = P(5, 0)
    /\ tools.select.mode = "box" /\ engine.selectedIds = {}

(* the window box from (0,0) to (10,10) has taken the locked line *)
C32_BoxTakesLocked ==
    /\ ev.op = "up" /\ tools.select.startPos = P(0, 0) /\ engine.lastMouse = P(10, 10)
    /\ 2 \in engine.selectedIds

(***************************************************************************)
(* The rectangular array in the command session                            *)
(***************************************************************************)
(* the place of a cell among the cells of the array, 0 when it is none *)
CellIndex(cell, cells) ==
    IF \E k \in DOMAIN cells : cells[k] = cell
    THEN CHOOSE k \in DOMAIN cells : cells[k] = cell ELSE 0

(* request rq copies the snapshot ids to cell (r, c) of array ar *)
CopiesTo(rq, ar, cell) ==
    /\ rq.kind = "rect" /\ rq.cell = cell /\ rq.ids = ar.ids
    /\ rq.dx = RMul(R(cell[2]), ar.colSpacing)
    /\ rq.dy = RMul(R(cell[1]), ar.rowSpacing)

(* the only pending request is a copy of the rectangular array and it is   *)
(* answered in this step                                                   *)
RectAnswered == ev'.op = "resolve" /\ Len(calls) = 1 /\ calls[1].kind = "rect"

(* the rectangular array is applied in this step *)
RectApplied ==
    /\ manager.currentTool = "array" /\ tools.array.state = "preview"
    /\ tools.array.mode = "rectangular" /\ calls = <<>>
    /\ (ev'.op = "down" \/ (ev'.op = "key" /\ ev'.arg = "Enter"))

(* C33: applying a rectangular array with R rows and C columns issues      *)
(* exactly R*C-1 copy requests, one for each (r,c) # (0,0) with offset     *)
(* (c*colSpacing, r*rowSpacing): the first when the array is applied, each *)
(* further one when the one before is answered, none after the last.       *)
C33_EveryCellCopied ==
    [][/\ RectApplied =>
            IF RectCells(tools.array.rows, tools.array.cols) = <<>>
            THEN \A j \in DOMAIN calls' : calls'[j].kind # "rect"
            ELSE /\ Len(calls') = 1
                 /\ CopiesTo(calls'[1], tools.array,
                             RectCells(tools.array.rows, tools.array.cols)[1])
       /\ RectAnswered =>
            Bind2(RectCells(tools.array.rows, tools.array.cols),
                  CellIndex(calls[1].cell, RectCells(tools.array.rows, tools.array.cols)),
                  LAMBDA cells, k :
                      /\ k # 0
                      /\ IF k < Len(cells)
                         THEN \E j \in DOMAIN calls' : CopiesTo(calls'[j], tools.array, cells[k + 1])
                         ELSE \A j \in DOMAIN calls' : calls'[j].kind # "rect")]_vars

(* the preview of the rectangular array: the snapshot shapes translated to *)
(* every cell but (0,0), by the offsets of the copy requests               *)
RectPreviewShown ==
    /\ manager.currentTool = "array" /\ tools.array.state = "preview"
    /\ tools.array.mode = "rectangular" /\ engine.preview # Null

C33_PreviewAtOffsets ==
    RectPreviewShown =>
        /\ Len(engine.preview.list) =
              (tools.array.rows * tools.array.cols - 1) * Len(tools.array.baseShapes)
        /\ \A k \in DOMAIN RectCells(tools.array.rows, tools.array.cols) :
           \A b \in DOMAIN tools.array.baseShapes :
              engine.preview.list[(k - 1) * Len(tools.array.baseShapes) + b].shape =
                  getTranslatedShape(
                      tools.array.baseShapes[b],
                      RMul(R(RectCells(tools.array.rows, tools.array.cols)[k][2]),
                           tools.array.colSpacing),
                      RMul(R(RectCells(tools.array.rows, tools.array.cols)[k][1]),
                           tools.array.rowSpacing))

(* a 2 x 2 array in preview *)
C33_PreviewSeen ==
    RectPreviewShown /\ tools.array.rows = 2 /\ tools.array.cols = 2

(***************************************************************************)
(* The impatient session: the command session's scene with the first line  *)
(* selected, the four tools that commit through the collaborator, and a    *)
(* user who does not wait for the answer: the button, Enter and Escape     *)
(* come while a request is pending.  A committing tool is entered once,    *)
(* so that all requests pending together stem from one activation.         *)
(***************************************************************************)
MaxInFlight == 2

AsyncSwitches == 1

AsyncTools == {"copy", "scale", "transform", "array"}

AsyncLim ==
    [ids |-> Len(MainScene) + MaxInFlight, switches |-> AsyncSwitches, pending |-> MaxInFlight]

(* the array is asked for one copy: one row of two, or two around a centre *)
AsyncAnswers(name) ==
    IF name = "array"
    THEN {a \in RectAnswers \cup PolarAnswers :
            (a.rows = 1 /\ a.cols = 2) \/ (a.count = 2 /\ a.rotate = "Y")}
    ELSE {NoAns}

AsyncMove == MouseMoveAt(MainCursors, AsyncLim)
AsyncDown == manager.currentTool # "select" /\ MouseDownAt(AsyncLim)
AsyncKey == manager.currentTool # "select" /\ KeyDownOf({"Escape", "Enter"}, AsyncLim)
AsyncTool ==
    /\ calls = <<>>
    /\ \E name \in AsyncTools : \E ans \in AsyncAnswers(name) :
            Assign(UserSetTool(Cur, name, ans), Ev("tool", name), AsyncLim)
AsyncAnswer == Respond(AsyncLim)

NextAsync == AsyncMove \/ AsyncDown \/ AsyncKey \/ AsyncTool \/ AsyncAnswer

SpecAsync == Init /\ [][NextAsync]_vars

(* the requests that change the project on behalf of a committing tool *)
CommitKinds == {"copy", "scale", "transform", "rect", "polar", "fillet"}

(* the tool that issues requests of kind *)
ToolOfKind(kind) == IF kind \in {"rect", "polar"} THEN "array" ELSE kind

InFlight == {i \in DOMAIN calls : calls[i].kind \in CommitKinds}

(* C34: within one activation of the Scale, Transform, Array or Copy tool  *)
(* at most one finalization is in flight: a pointer-down or Enter that      *)
(* comes while a commit request is pending issues no further one.           *)
C34_OneFinalization == Cardinality(InFlight) <= 1

(* the button pressed a second time while the first commit request of the  *)
(* same activation is pending                                              *)
C34_SecondRequest ==
    /\ ev.op = "down" /\ Len(calls) = 2
    /\ calls[1].kind \in CommitKinds /\ calls[2].kind = calls[1].kind
    /\ manager.currentTool = ToolOfKind(calls[1].kind)

(***************************************************************************)
(* The session of the user who leaves: the Copy or the Scale tool commits, *)
(* and while its request is pending the user presses Escape or changes to  *)
(* the line tool and goes on working there.                                *)
(***************************************************************************)
LateSwitches == 2

LateTools == {"copy", "scale"}

LateLim == Lim(Len(MainScene) + MaxCreated, LateSwitches)

LateMove == MouseMoveAt(MainCursors, LateLim)
LateDown == manager.currentTool # "select" /\ MouseDownAt(LateLim)
LateKey == manager.currentTool # "select" /\ KeyDownOf({"Escape"}, LateLim)
LateTool == calls = <<>> /\ switches = 0 /\ ToolButtonOf(LateTools, LateLim)
LateOther == calls # <<>> /\ ToolButtonOf({"line"}, LateLim)
LateAnswer == Respond(LateLim)

NextLate == LateMove \/ LateDown \/ LateKey \/ LateTool \/ LateOther \/ LateAnswer

SpecLate == Init /\ [][NextLate]_vars

(* the only pending request is a commit request of a tool the user has     *)
(* left, and it is answered in this step                                   *)
LateAnswered ==
    /\ ev'.op = "resolve" /\ Len(calls) = 1 /\ calls[1].kind \in CommitKinds
    /\ manager.currentTool # ToolOfKind(calls[1].kind)

(* C35: once the user has cancelled a tool with Escape or changed to       *)
(* another tool while that tool's commit request is pending, the answer to *)
(* the request changes neither the active tool, nor the other tool's       *)
(* command state and preview, nor the selection.                           *)
C35_LateAnswerInert ==
    [][LateAnswered =>
          /\ manager.currentTool' = manager.currentTool
          /\ tools' = tools
          /\ engine.preview' = engine.preview
          /\ engine.selectedIds' = engine.selectedIds]_vars

(* the answer has come while the user was drawing a line, and has ended    *)
(* the line command                                                        *)
C35_LineCommandEnded ==
    /\ ev.op = "resolve" /\ manager.currentTool = "select"
    /\ tools.line.p1 # Null /\ switches = LateSwitches

(***************************************************************************)
(* The session of overlapping reloads: the user draws lines without        *)
(* waiting for the collaborator, every committed line is followed by a     *)
(* reload of the project, and the collaborator may hold an answer back, so *)
(* that the answers arrive in another order than the requests.             *)
(***************************************************************************)
MaxDrawn == 2

ReloadLim ==
    [ids |-> Len(MainScene) + MaxDrawn, switches |-> MaxSwitches, pending |-> MaxInFlight]

ReloadMove == manager.currentTool = "line" /\ MouseMoveAt(MainCursors, ReloadLim)
ReloadDown == manager.currentTool = "line" /\ MouseDownAt(ReloadLim)
ReloadTool == ToolButtonOf({"line"}, ReloadLim)
ReloadServe ==
    \E i \in DOMAIN calls :
        /\ calls[i].kind = "get_project_data" /\ "data" \notin DOMAIN calls[i]
        /\ Assign(Serve(Cur, i), Ev("serve", ""), ReloadLim)
ReloadAnswer == Respond(ReloadLim)

NextReload == ReloadMove \/ ReloadDown \/ ReloadTool \/ ReloadServe \/ ReloadAnswer

SpecReload == Init /\ [][NextReload]_vars

(* C36: after all pending collaborator calls have resolved, the last of    *)
(* them successfully, the shape list held by the engine equals the         *)
(* collaborator's committed project data, in whatever order the answers to *)
(* overlapping reloads have arrived.                                       *)
C36_ReloadsConverge ==
    (calls = <<>> /\ ev.op = "resolve" /\ ev.arg = "ok") => engine.shapes = api.shapes

(* both lines are committed, every call is answered, and the engine shows  *)
(* one of them                                                             *)
C36_StaleShapes ==
    /\ calls = <<>> /\ ev.op = "resolve" /\ ev.arg = "ok"
    /\ Len(api.shapes) = Len(MainScene) + MaxDrawn
    /\ Len(engine.shapes) = Len(MainScene) + 1

(* C37: after every setTool call has returned, the tool name of the last   *)
(* onToolChanged notification is the name of the active tool, also when    *)
(* activate() has redirected to the select tool.                           *)
C37_NotifiedToolActive == manager.toolChanged = manager.currentTool

(* the Array tool was asked for, its prompt was cancelled, the select tool *)
(* is active and the notification says array                               *)
C37_RedirectNotified ==
    /\ ev.op = "tool" /\ ev.arg = "array"
    /\ manager.currentTool = "select" /\ manager.toolChanged = "array"

(* the editor after the step *)
CurNext ==
    [engine |-> engine', manager |-> manager', tools |-> tools', calls |-> calls', api |-> api',
     switches |-> switches']

(* a key that is no tool shortcut is pressed in this step *)
KeyPressed == ev'.op = "key" /\ ev'.arg \notin DOMAIN Shortcut

(* C38: a key pressed outside a text input is delivered to a tool key      *)
(* handler once, the handler of the tool that was active when the key was  *)
(* pressed; Escape in the Copy tool returns to the select tool and leaves  *)
(* the selection as it is.                                                 *)
C38_KeyDeliveredOnce ==
    [][/\ KeyPressed =>
            \E ans \in KeyAnswers(ev'.arg) : CurNext = ToolOnKeyDown(Cur, ev'.arg, ans)
       /\ (KeyPressed /\ ev'.arg = "Escape" /\ manager.currentTool = "copy") =>
            /\ manager.currentTool' = "select"
            /\ engine.selectedIds' = engine.selectedIds]_vars

(* Escape has left the Copy tool and the selection is gone *)
C38_EscapeClearedSelection ==
    /\ ev.op = "key" /\ ev.arg = "Escape" /\ manager.currentTool = "select"
    /\ tools.copy.basePoint = Null /\ engine.selectedIds = {} /\ switches = 1
    /\ manager.toolChanged = "select" /\ engine.shapes = MainScene

HiddenIds == {engine.shapes[i].id : i \in {j \in DOMAIN engine.shapes : engine.shapes[j].hidden}}

(* C39: a shape whose hidden flag is set is never returned by hitTest nor   *)
(* by getShapesInBox, so that it is neither hovered nor selected.           *)
C39_HiddenUntouched == HiddenIds \cap (engine.hoveredId \cup engine.selectedIds) = {}

(* the pointer next to the hidden line hovers it *)
C39_HiddenHovered ==
    /\ ev.op = "move" /\ engine.lastMouse = P(0, 5) /\ engine.hoveredId = {3}

(* a click next to the hidden line has selected it *)
C39_HiddenSelected ==
    /\ ev.op = "down" /\ tools.select.startPos = P(0, 5) /\ 3 \in engine.selectedIds

(***************************************************************************)
(* The fillet session: a line, a line that meets it at the origin and a    *)
(* line parallel to it; the user enters the Fillet tool, answers the       *)
(* radius prompt, picks lines and moves the pointer over the others.       *)
(***************************************************************************)
HoverScene == <<Line(1, 0, 0, 10, 0), Line(2, 0, 0, 0, 10), Line(3, 0, 20, 10, 20)>>

HoverCursors == {P(5, 0), P(0, 5), P(5, 20), P(30, 40)}

HoverLim == Lim(Len(HoverScene) + MaxCreated, MaxSwitches)

InitHover == InitFrom(NewSys(HoverScene, {}))

HoverTool == calls = <<>> /\ ToolButtonOf({"fillet"}, HoverLim)
HoverMove == MouseMoveAt(HoverCursors, HoverLim)
HoverDown == calls = <<>> /\ manager.currentTool = "fillet" /\ MouseDownAt(HoverLim)
HoverKey == calls = <<>> /\ manager.currentTool = "fillet" /\ KeyDownOf({"Escape"}, HoverLim)
HoverAnswer == Respond(HoverLim)

NextHover == HoverTool \/ HoverMove \/ HoverDown \/ HoverKey \/ HoverAnswer

SpecHover == InitHover /\ [][NextHover]_vars

(* the second line of a fillet is under the pointer *)
OverSecond ==
    /\ tools.fillet.firstShape # Null /\ engine.hoveredId # {}
    /\ engine.hoveredId # {tools.fillet.firstShape.id}
    /\ ShapeById(engine, CHOOSE i \in engine.hoveredId : TRUE).type = "line"

(* what _showPreview makes of the first line and the line under the        *)
(* pointer when it starts without a preview                                *)
FreshPreview ==
    showPreview([engine EXCEPT !.preview = Null], tools.fillet.radius, tools.fillet.firstShape,
                ShapeById(engine, CHOOSE i \in engine.hoveredId : TRUE))

(* C40: after every pointer-move in the Fillet tool engine.preview is null *)
(* or was computed in that step from the first picked line and the line    *)
(* under the pointer; the preview of a line hovered before is not kept.    *)
C40_PreviewOfThisMove ==
    (ev.op = "move" /\ manager.currentTool = "fillet") =>
        engine.preview = IF OverSecond THEN FreshPreview ELSE Null

(* the pointer is over the line parallel to the first one and the preview  *)
(* of the corner with the other line is still shown                        *)
C40_StalePreview ==
    /\ ev.op = "move" /\ manager.currentTool = "fillet"
    /\ tools.fillet.firstShape # Null /\ tools.fillet.firstShape.id = 1
    /\ engine.hoveredId = {3} /\ engine.preview # Null

=============================================================================
